---- MODULE Spec2Model ----
(***************************************************************************)
(* Model of the WebApp reconciler (package controller, Reconcile and its   *)
(* helpers) run against the object store it talks to.                      *)
(*                                                                         *)
(* One WebApp key is modelled.  Reconcile suspends only at store calls, so *)
(* every store call of an invocation is one atomic step and the steps of   *)
(* different invocations, of the external writers and of the store's own   *)
(* housekeeping interleave freely.  A resourceVersion is an opaque token   *)
(* that is only ever compared for equality, so it is kept in canonical     *)
(* form: the stored record carries CurrentVersion, and every copy read     *)
(* before the latest write carries StaleVersion.  The comparison the store *)
(* makes is exact, and the state space stays finite.                       *)
(***************************************************************************)
EXTENDS Integers, Sequences, FiniteSets, TLC

\* ------------------------------------------------------------------ bounds
\* Desired-state edits stop once the generation reaches this value.
MaxGeneration == 2
\* The clock (seconds) stops advancing at this value.
MaxTime == 2

\* --------------------------------------------------------------- constants
Nil == "nil"
WebAppName == "webapp-sample"
webappFinalizer == "app.54b3r.io/finalizer"
otherFinalizer == "example.com/protect"
requeueAfter == 60
TypeAvailable == "Available"
TypeProgressing == "Progressing"
TypeDegraded == "Degraded"
ConditionTrue == "True"
ConditionFalse == "False"
ContainerName == "webapp"
SidecarName == "sidecar"

\* Concurrent invocations for the key: the active worker and one left over from
\* a previous leader.
Workers == {"w1", "w2"}

\* Concurrency tokens: of the stored record, of a copy that a later write has
\* superseded, of no record.
CurrentVersion == "rv-current"
StaleVersion == "rv-stale"
NoVersion == ""

\* Errors of the store client.
ErrNotFound == "not found"
ErrConflict == "the object has been modified"
ErrAlreadyExists == "already exists"
ErrUnavailable == "store unavailable"
ErrInvalid == "invalid"

\* Desired states a user submits.  Replicas is a pointer: <<>> is unset, <<n>> is n.
SpecA == [image |-> "app:1.0", replicas |-> <<2>>, port |-> 8080]
SpecB == [image |-> "app:1.0", replicas |-> <<3>>, port |-> 8080]
SpecC == [image |-> "app:2.0", replicas |-> <<>>, port |-> 9090]
DesiredStates == {SpecA, SpecB, SpecC}
\* A desired state that passes the WebApp's validation (image is present)
\* and that no workload can be made of (the image is empty).
SpecEmptyImage == [image |-> "", replicas |-> <<1>>, port |-> 8080]

\* ----------------------------------------------------------------- records
NoLabels == [name |-> "", instance |-> "", managedBy |-> ""]

NoWebApp ==
    [exists |-> FALSE, resourceVersion |-> NoVersion, generation |-> 0, deleting |-> FALSE,
     finalizers |-> <<>>, spec |-> SpecA,
     status |-> [availableReplicas |-> 0, conditions |-> <<>>]]

NoDeployment ==
    [exists |-> FALSE, resourceVersion |-> NoVersion, owner |-> Nil, replicas |-> 0,
     selector |-> NoLabels, containers |-> <<>>, paused |-> FALSE, availableReplicas |-> 0]

NoService ==
    [exists |-> FALSE, resourceVersion |-> NoVersion, owner |-> Nil, selector |-> NoLabels,
     port |-> 0, targetPort |-> 0, type |-> Nil, annotated |-> FALSE]

NoResult == [err |-> Nil, requeue |-> FALSE, requeueAfter |-> 0, done |-> FALSE]

\* ------------------------------------------------------- controllerutil
ContainsFinalizer(o, f) == \E k \in 1..Len(o.finalizers) : o.finalizers[k] = f

AddFinalizer(o, f) ==
    IF ContainsFinalizer(o, f) THEN o
    ELSE [o EXCEPT !.finalizers = Append(@, f)]

\* RemoveFinalizer clearing the whole list.
RemoveFinalizerAll(o, f) == [o EXCEPT !.finalizers = <<>>]

RemoveFinalizer(o, f) ==
    [o EXCEPT !.finalizers = SelectSeq(@, LAMBDA e : e # f)]

\* --------------------------------------------------------- meta conditions
FindStatusCondition(conds, t) ==
    IF \E k \in 1..Len(conds) : conds[k].type = t
    THEN CHOOSE k \in 1..Len(conds) :
             conds[k].type = t /\ \A j \in 1..(k - 1) : conds[j].type # t
    ELSE 0

\* SetStatusCondition stamping the time of the call on every write.
SetStatusConditionRestamped(conds, new, t) ==
    LET k == FindStatusCondition(conds, new.type) IN
    IF k = 0
    THEN Append(conds, [new EXCEPT !.lastTransitionTime = t])
    ELSE [conds EXCEPT ![k] = [new EXCEPT !.lastTransitionTime = t]]

\* SetStatusCondition never touching the transition time of a stored entry.
SetStatusConditionFrozen(conds, new, t) ==
    LET k == FindStatusCondition(conds, new.type) IN
    IF k = 0
    THEN Append(conds, [new EXCEPT !.lastTransitionTime = t])
    ELSE [conds EXCEPT ![k] =
            [new EXCEPT !.lastTransitionTime = conds[k].lastTransitionTime]]

\* meta.SetStatusCondition: append when the type is new; otherwise overwrite
\* in place, restamping lastTransitionTime only when status changes.
SetStatusCondition(conds, new, t) ==
    LET k == FindStatusCondition(conds, new.type) IN
    IF k = 0
    THEN Append(conds, [new EXCEPT !.lastTransitionTime = t])
    ELSE [conds EXCEPT ![k] =
            [type |-> @.type,
             status |-> new.status,
             reason |-> new.reason,
             message |-> new.message,
             observedGeneration |-> new.observedGeneration,
             lastTransitionTime |->
                 IF @.status # new.status THEN t ELSE @.lastTransitionTime]]

Condition(t, s, r, m, g) ==
    [type |-> t, status |-> s, reason |-> r, message |-> m,
     observedGeneration |-> g, lastTransitionTime |-> 0]

\* ------------------------------------------------------------ child shapes
labelsForWebApp(name) ==
    [name |-> "webapp", instance |-> name, managedBy |-> "platform-operator"]

\* DesiredReplicas taking the default whatever the WebApp asks for.
DesiredReplicasDefault(o) == 1

\* DesiredReplicas with the zero value for an unset count.
DesiredReplicasUnsetZero(o) == IF o.spec.replicas = <<>> THEN 0 ELSE o.spec.replicas[1]

DesiredReplicas(o) == IF o.spec.replicas = <<>> THEN 1 ELSE o.spec.replicas[1]

\* The Deployment reconcileDeployment builds, owner reference included.
DesiredDeployment(o) ==
    [exists |-> TRUE, resourceVersion |-> NoVersion, owner |-> WebAppName,
     replicas |-> DesiredReplicas(o),
     selector |-> labelsForWebApp(WebAppName),
     containers |-> << [name |-> ContainerName, image |-> o.spec.image,
                        port |-> o.spec.port] >>,
     paused |-> FALSE, availableReplicas |-> 0]

\* The Service reconcileService builds, owner reference included.
DesiredService(o) ==
    [exists |-> TRUE, resourceVersion |-> NoVersion, owner |-> WebAppName,
     selector |-> labelsForWebApp(WebAppName),
     port |-> o.spec.port, targetPort |-> o.spec.port,
     type |-> "ClusterIP", annotated |-> FALSE]

\* A selective update that adds the desired replicas to those it finds.
MergeDeploymentAdding(existing, desired) ==
    [existing EXCEPT
        !.replicas = (@ + desired.replicas) % 8,
        !.containers[1].image = desired.containers[1].image,
        !.containers[1].port = desired.containers[1].port]

\* The selective update of an existing Deployment: replicas, and image and
\* ports of the first container.
MergeDeployment(existing, desired) ==
    [existing EXCEPT
        !.replicas = desired.replicas,
        !.containers[1].image = desired.containers[1].image,
        !.containers[1].port = desired.containers[1].port]

\* The selective update of an existing Service: ports and selector.
MergeService(existing, desired) ==
    [existing EXCEPT
        !.port = desired.port,
        !.targetPort = desired.targetPort,
        !.selector = desired.selector]

\* cleanupChildResources: nothing to clean up, owner references do it.
cleanupChildResources(o) == Nil

\* AvailableCondition reporting availability whatever was observed.
AvailableConditionAlways(n, g) ==
    Condition(TypeAvailable, ConditionTrue, "DeploymentAvailable",
              ToString(n) \o " replica(s) available", g)

\* The Available condition computed from the Deployment's available replicas.
AvailableCondition(n, g) ==
    IF n > 0
    THEN Condition(TypeAvailable, ConditionTrue, "DeploymentAvailable",
                   ToString(n) \o " replica(s) available", g)
    ELSE Condition(TypeAvailable, ConditionFalse, "DeploymentUnavailable",
                   "no replicas are available yet", g)


\* -------------------------------------------------------------------- state
VARIABLES
    webapp,          \* the stored WebApp record (NoWebApp once purged)
    deployment,      \* the stored Deployment of the same name
    service,         \* the stored Service of the same name
    now,             \* wall clock, in seconds
    finalizerLanded, \* history: a write adding webappFinalizer has landed
    pc,              \* per invocation: the store call it is about to make
    obj,             \* per invocation: its in-memory WebApp
    existing,        \* per invocation: the child it read and is about to write
    err,             \* per invocation: the error a child synchronizer returned
    result,          \* per invocation: what Reconcile returned
    ops,             \* per invocation: the store calls it has made so far
    idem,            \* history: the last invocations that ran undisturbed
    rejected         \* history: how the last invocations fared with conflicts

vars == <<webapp, deployment, service, now, finalizerLanded,
          pc, obj, existing, err, result, ops, idem, rejected>>
storeVars == <<webapp, deployment, service>>
localVars == <<pc, obj, existing, err, result, ops>>

NoCondition == Condition(Nil, Nil, Nil, Nil, 0)

\* One entry of an invocation's call log.
Op(at, verb, kind, e, cond) ==
    [at |-> at, verb |-> verb, kind |-> kind, err |-> e, cond |-> cond]

\* A copy of a record after somebody else's write to that record has landed.
Stale(o) ==
    IF o.resourceVersion = CurrentVersion
    THEN [o EXCEPT !.resourceVersion = StaleVersion] ELSE o

\* The in-memory WebApps after invocation i's store call: its own copy is
\* mine, and a write that landed supersedes the copies the others hold.
WebAppCopies(i, mine, landed) ==
    [j \in Workers |-> IF j = i THEN mine
                       ELSE IF landed THEN Stale(obj[j]) ELSE obj[j]]

\* The in-memory children after invocation i's write: it drops its own copy,
\* and a write that landed supersedes the copies of that child (held at
\* program point at) of the others.
ChildCopies(i, at, landed) ==
    [j \in Workers |-> IF j = i THEN NoDeployment
                       ELSE IF landed /\ pc[j] = at THEN Stale(existing[j])
                       ELSE existing[j]]

\* A write from outside the engine supersedes every copy of the record.
OutsideWroteWebApp ==
    /\ obj' = [j \in Workers |-> Stale(obj[j])]
    /\ UNCHANGED <<pc, existing, err, result, ops>>

OutsideWroteChild(at) ==
    /\ existing' = [j \in Workers |-> IF pc[j] = at THEN Stale(existing[j])
                                       ELSE existing[j]]
    /\ UNCHANGED <<pc, obj, err, result, ops>>

\* The store finishes a deletion once no finalizer token is left.
Settle(o) == IF o.deleting /\ o.finalizers = <<>> THEN NoWebApp ELSE o

\* An update of the WebApp that the store lets land without comparing versions.
UpdateWebAppUnchecked(stored, local, fault) ==
    IF fault THEN [err |-> ErrUnavailable, stored |-> stored, local |-> local]
    ELSE IF ~stored.exists THEN [err |-> ErrNotFound, stored |-> stored, local |-> local]
    ELSE LET new == [stored EXCEPT !.spec = local.spec,
                                   !.finalizers = local.finalizers]
         IN [err |-> Nil, stored |-> Settle(new), local |-> new]

\* client.Update of the WebApp: metadata and spec are written, status is not
\* (status subresource), under the optimistic-concurrency check.
UpdateWebApp(stored, local, fault) ==
    IF fault THEN [err |-> ErrUnavailable, stored |-> stored, local |-> local]
    ELSE IF ~stored.exists THEN [err |-> ErrNotFound, stored |-> stored, local |-> local]
    ELSE IF stored.resourceVersion # local.resourceVersion
    THEN [err |-> ErrConflict, stored |-> stored, local |-> local]
    ELSE LET written == [stored EXCEPT !.spec = local.spec,
                                       !.finalizers = local.finalizers]
             new == written
         IN [err |-> Nil, stored |-> Settle(new), local |-> new]

\* A status update that the store lets land without comparing versions.
UpdateWebAppStatusUnchecked(stored, local, fault) ==
    IF fault THEN [err |-> ErrUnavailable, stored |-> stored, local |-> local]
    ELSE IF ~stored.exists THEN [err |-> ErrNotFound, stored |-> stored, local |-> local]
    ELSE LET new == [stored EXCEPT !.status = local.status]
         IN [err |-> Nil, stored |-> new, local |-> new]

\* A status update that writes the Conditions and nothing else of status.
UpdateWebAppStatusConditionsOnly(stored, local, fault) ==
    IF fault THEN [err |-> ErrUnavailable, stored |-> stored, local |-> local]
    ELSE IF ~stored.exists THEN [err |-> ErrNotFound, stored |-> stored, local |-> local]
    ELSE IF stored.resourceVersion # local.resourceVersion
    THEN [err |-> ErrConflict, stored |-> stored, local |-> local]
    ELSE LET new == [stored EXCEPT !.status.conditions = local.status.conditions]
         IN [err |-> Nil, stored |-> new, local |-> new]

\* client.Status().Update of the WebApp: only status is written, under the
\* optimistic-concurrency check.
UpdateWebAppStatus(stored, local, fault) ==
    IF fault THEN [err |-> ErrUnavailable, stored |-> stored, local |-> local]
    ELSE IF ~stored.exists THEN [err |-> ErrNotFound, stored |-> stored, local |-> local]
    ELSE IF stored.resourceVersion # local.resourceVersion
    THEN [err |-> ErrConflict, stored |-> stored, local |-> local]
    ELSE LET written == [stored EXCEPT !.status = local.status]
             new == written
         IN [err |-> Nil, stored |-> new, local |-> new]

\* The store's validation of a child: a container needs an image.
Admissible(child) ==
    \/ "containers" \notin DOMAIN child
    \/ \A k \in 1..Len(child.containers) : child.containers[k].image # ""

\* client.Create of a child.
CreateChild(stored, desired, fault) ==
    IF fault THEN [err |-> ErrUnavailable, stored |-> stored]
    ELSE IF ~Admissible(desired) THEN [err |-> ErrInvalid, stored |-> stored]
    ELSE IF stored.exists THEN [err |-> ErrAlreadyExists, stored |-> stored]
    ELSE [err |-> Nil,
          stored |-> [desired EXCEPT !.resourceVersion = CurrentVersion]]

\* An update made by removing the stored child, for the next pass to create
\* it afresh.
UpdateChildByReplacement(stored, local, fault) ==
    IF fault THEN [err |-> ErrUnavailable, stored |-> stored]
    ELSE IF ~stored.exists THEN [err |-> ErrNotFound, stored |-> stored]
    ELSE [err |-> Nil, stored |-> [stored EXCEPT !.exists = FALSE]]

\* An update of a child that the store lets land without comparing versions.
UpdateChildUnchecked(stored, local, fault) ==
    IF fault THEN [err |-> ErrUnavailable, stored |-> stored]
    ELSE IF ~stored.exists THEN [err |-> ErrNotFound, stored |-> stored]
    ELSE IF ~Admissible(local) THEN [err |-> ErrInvalid, stored |-> stored]
    ELSE [err |-> Nil, stored |-> [local EXCEPT !.resourceVersion = CurrentVersion]]

\* client.Update of a child, under the optimistic-concurrency check.
UpdateChild(stored, local, fault) ==
    IF fault THEN [err |-> ErrUnavailable, stored |-> stored]
    ELSE IF ~stored.exists THEN [err |-> ErrNotFound, stored |-> stored]
    ELSE IF stored.resourceVersion # local.resourceVersion
    THEN [err |-> ErrConflict, stored |-> stored]
    ELSE IF ~Admissible(local) THEN [err |-> ErrInvalid, stored |-> stored]
    ELSE [err |-> Nil, stored |-> local]

\* What an invocation left behind when it returned.
NoPass ==
    [status |-> NoWebApp.status, deployment |-> NoDeployment, service |-> NoService,
     res |-> NoResult]
NoPasses == [phase |-> "none", first |-> NoPass, res2 |-> NoResult]

InitWith(fins) ==
    /\ webapp = [exists |-> TRUE, resourceVersion |-> CurrentVersion, generation |-> 1,
                 deleting |-> FALSE, finalizers |-> fins, spec |-> SpecA,
                 status |-> [availableReplicas |-> 0, conditions |-> <<>>]]
    /\ deployment = NoDeployment
    /\ service = NoService
    /\ now = 0
    /\ finalizerLanded = FALSE
    /\ pc = [i \in Workers |-> "idle"]
    /\ obj = [i \in Workers |-> NoWebApp]
    /\ existing = [i \in Workers |-> NoDeployment]
    /\ err = [i \in Workers |-> Nil]
    /\ result = [i \in Workers |-> NoResult]
    /\ ops = [i \in Workers |-> <<>>]
    /\ idem = NoPasses
    /\ rejected = "no"


\* A fresh WebApp, with or without a finalizer token of another controller.
Init == \E fins \in {<<>>, <<otherFinalizer>>} : InitWith(fins)

\* A fresh WebApp nobody else protects.
InitPlain == InitWith(<<>>)

\* ------------------------------------------------------------------ engine
\* How an invocation ends: pc "done" with the value Reconcile returns.
Success == [err |-> Nil, requeue |-> FALSE, requeueAfter |-> 0, done |-> TRUE]
Requeue == [err |-> Nil, requeue |-> TRUE, requeueAfter |-> 0, done |-> TRUE]
Periodic == [err |-> Nil, requeue |-> FALSE, requeueAfter |-> requeueAfter, done |-> TRUE]
\* Failure asking for an immediate re-delivery next to the error.
FailureRequeued(e) == [err |-> e, requeue |-> TRUE, requeueAfter |-> 0, done |-> TRUE]

Failure(e) == [err |-> e, requeue |-> FALSE, requeueAfter |-> 0, done |-> TRUE]

\* IgnoreNotFound passing every error on.
IgnoreNotFoundNothing(e) == e

\* client.IgnoreNotFound
IgnoreNotFound(e) == IF e = ErrNotFound THEN Nil ELSE e

\* The calls of an invocation, named by its program point.
StoreCalls ==
    {"idle", "Cleanup", "RemoveFinalizer", "AddFinalizer", "MarkProgressing",
     "DeploymentGet", "DeploymentCreate", "DeploymentUpdate", "DeploymentFailed",
     "ServiceGet", "ServiceCreate", "ServiceUpdate", "ServiceFailed",
     "StatusGet", "SetAvailable", "ClearProgressing", "ClearDegraded"}

\* Whether the call at program point at fails transiently (TRUE), when the
\* calls in F can.
Outcomes(at, F) == IF at \in F THEN BOOLEAN ELSE {FALSE}

\* AfterFetch without the registration of the finalizer token.
AfterFetchUnregistered(o) ==
    IF o.deleting
    THEN IF ContainsFinalizer(o, webappFinalizer) THEN "Cleanup" ELSE "done"
    ELSE "MarkProgressing"

\* AfterFetch without the look at the deletion mark.
AfterFetchUnmarked(o) ==
    IF ContainsFinalizer(o, webappFinalizer) THEN "Cleanup" ELSE "AddFinalizer"

\* AfterFetch with the look at the finalizer token before the deletion mark.
AfterFetchTokenFirst(o) ==
    IF ~ContainsFinalizer(o, webappFinalizer) THEN "AddFinalizer"
    ELSE IF o.deleting THEN "Cleanup"
    ELSE "MarkProgressing"

\* AfterFetch without the deletion path.
AfterFetchNoDeletionPath(o) ==
    IF ~ContainsFinalizer(o, webappFinalizer) THEN "AddFinalizer"
    ELSE "MarkProgressing"

\* Reconcile's branch on the WebApp it fetched: the call it makes next.
AfterFetch(o) ==
    IF o.deleting
    THEN IF ContainsFinalizer(o, webappFinalizer) THEN "Cleanup" ELSE "done"
    ELSE IF ~ContainsFinalizer(o, webappFinalizer) THEN "AddFinalizer"
    ELSE "MarkProgressing"

\* Reconcile's control flow after the fetch: for the call at each program
\* point, the call that follows when it succeeded (ok), when it found nothing
\* (missing) and when it failed otherwise (failed).
ReconcileFlow ==
    [at \in StoreCalls \ {"idle"} |->
        CASE at = "Cleanup" ->
                [ok |-> "RemoveFinalizer", missing |-> "done", failed |-> "done"]
          [] at = "MarkProgressing" ->
                [ok |-> "DeploymentGet", missing |-> "done", failed |-> "done"]
          [] at = "DeploymentGet" ->
                [ok |-> "DeploymentUpdate", missing |-> "DeploymentCreate",
                 failed |-> "DeploymentFailed"]
          [] at \in {"DeploymentCreate", "DeploymentUpdate"} ->
                [ok |-> "ServiceGet", missing |-> "DeploymentFailed",
                 failed |-> "DeploymentFailed"]
          [] at = "ServiceGet" ->
                [ok |-> "ServiceUpdate", missing |-> "ServiceCreate",
                 failed |-> "ServiceFailed"]
          [] at \in {"ServiceCreate", "ServiceUpdate"} ->
                [ok |-> "StatusGet", missing |-> "ServiceFailed",
                 failed |-> "ServiceFailed"]
          [] at = "StatusGet" ->
                [ok |-> "SetAvailable", missing |-> "done", failed |-> "done"]
          [] at = "SetAvailable" ->
                [ok |-> "ClearProgressing", missing |-> "done", failed |-> "done"]
          [] at = "ClearProgressing" ->
                [ok |-> "ClearDegraded", missing |-> "done", failed |-> "done"]
          [] OTHER -> [ok |-> "done", missing |-> "done", failed |-> "done"]]

\* The call that follows the call at program point at, which returned e, in flow.
Follow(flow, at, e) ==
    IF e = Nil THEN flow[at].ok
    ELSE IF e = ErrNotFound THEN flow[at].missing
    ELSE flow[at].failed

\* ReconcileFlow with the call at program point at followed by to, always.
Rerouted(at, to) ==
    [ReconcileFlow EXCEPT ![at] = [ok |-> to, missing |-> to, failed |-> to]]

\* NextCall going on with the pass after the finalizer update.
NextCallRunsOn(at, e) == Follow(Rerouted("AddFinalizer", "MarkProgressing"), at, e)

\* NextCall returning a child synchronizer's error without the Degraded write.
NextCallSilent(at, e) ==
    Follow([c \in DOMAIN ReconcileFlow |->
               [ReconcileFlow[c] EXCEPT
                   !.missing = IF @ \in {"DeploymentFailed", "ServiceFailed"}
                               THEN "done" ELSE @,
                   !.failed = IF @ \in {"DeploymentFailed", "ServiceFailed"}
                              THEN "done" ELSE @]], at, e)

\* NextCall going on to the Service after the Deployment failed.
NextCallPressesOn(at, e) == Follow(Rerouted("DeploymentFailed", "ServiceGet"), at, e)

\* NextCall going from the Available write straight to the last write.
NextCallSkipsClear(at, e) == Follow(Rerouted("SetAvailable", "ClearDegraded"), at, e)

\* NextCall going on with the pass after the Progressing write, landed or not.
NextCallUnheeding(at, e) == Follow(Rerouted("MarkProgressing", "DeploymentGet"), at, e)

\* NextCall returning after cleanup without the finalizer update.
NextCallKeepsToken(at, e) == Follow(Rerouted("Cleanup", "done"), at, e)

\* NextCall trying a failed create of the Deployment again.
NextCallTriesAgain(at, e) ==
    Follow([ReconcileFlow EXCEPT !["DeploymentCreate"].failed = "DeploymentCreate"],
           at, e)

\* NextCall going on to the Service after a failed update of the Deployment.
NextCallShrugsOff(at, e) ==
    Follow([ReconcileFlow EXCEPT !["DeploymentUpdate"].failed = "ServiceGet"], at, e)

NextCall(at, e) == Follow(ReconcileFlow, at, e)

\* The call log of invocation i with its current call added.
Logged(i, verb, kind, e, cond) ==
    [ops EXCEPT ![i] = Append(@, Op(pc[i], verb, kind, e, cond))]

\* r.Get of the WebApp and the branch on what it returned.
Fetch(i, F) ==
    /\ pc[i] = "idle"
    /\ \E fault \in Outcomes(pc[i], F) :
        LET e == IF fault THEN ErrUnavailable
                 ELSE IF ~webapp.exists THEN ErrNotFound ELSE Nil
            next == IF e = Nil THEN AfterFetch(webapp) ELSE "done"
        IN /\ ops' = Logged(i, "get", "WebApp", e, NoCondition)
           /\ obj' = [obj EXCEPT ![i] = IF e = Nil THEN webapp ELSE NoWebApp]
           /\ pc' = [pc EXCEPT ![i] = next]
           /\ result' = [result EXCEPT ![i] =
                  IF e # Nil
                  THEN IF IgnoreNotFound(e) = Nil THEN Success ELSE Failure(e)
                  ELSE IF next = "done" THEN Success
                  ELSE NoResult]
    /\ UNCHANGED <<storeVars, now, finalizerLanded, existing, err>>

\* The deletion path: cleanupChildResources, then RemoveFinalizer in memory.
Cleanup(i, F) ==
    /\ pc[i] = "Cleanup"
    /\ LET e == cleanupChildResources(obj[i]) IN
        /\ ops' = Logged(i, "cleanup", "WebApp", e, NoCondition)
        /\ obj' = [obj EXCEPT ![i] =
               IF e = Nil THEN RemoveFinalizer(@, webappFinalizer) ELSE @]
        /\ pc' = [pc EXCEPT ![i] = NextCall(pc[i], e)]
        /\ result' = [result EXCEPT ![i] =
               IF e = Nil THEN @ ELSE Failure("finalizer cleanup: " \o e)]
    /\ UNCHANGED <<storeVars, now, finalizerLanded, existing, err>>

\* r.Update after RemoveFinalizer, on the deletion path.
RemoveFinalizerUpdate(i, F) ==
    /\ pc[i] = "RemoveFinalizer"
    /\ \E fault \in Outcomes(pc[i], F) :
        LET r == UpdateWebApp(webapp, obj[i], fault) IN
        /\ webapp' = r.stored
        /\ obj' = WebAppCopies(i, r.local, r.stored # webapp)
        /\ ops' = Logged(i, "update", "WebApp", r.err, NoCondition)
        /\ pc' = [pc EXCEPT ![i] = NextCall(pc[i], r.err)]
        /\ result' = [result EXCEPT ![i] =
               IF r.err # Nil THEN Failure("removing finalizer: " \o r.err) ELSE Success]
    /\ UNCHANGED <<deployment, service, now, finalizerLanded, existing, err>>

\* AddFinalizer in memory and r.Update, on the first reconcile.
AddFinalizerUpdate(i, F) ==
    /\ pc[i] = "AddFinalizer"
    /\ \E fault \in Outcomes(pc[i], F) :
        LET r == UpdateWebApp(webapp, AddFinalizer(obj[i], webappFinalizer), fault) IN
        /\ webapp' = r.stored
        /\ obj' = WebAppCopies(i, r.local, r.stored # webapp)
        /\ ops' = Logged(i, "update", "WebApp", r.err, NoCondition)
        /\ pc' = [pc EXCEPT ![i] = NextCall(pc[i], r.err)]
        /\ result' = [result EXCEPT ![i] =
               IF r.err # Nil THEN Failure("adding finalizer: " \o r.err) ELSE Requeue]
        /\ finalizerLanded' =
               (finalizerLanded \/
                (ContainsFinalizer(r.stored, webappFinalizer)
                   /\ ~ContainsFinalizer(webapp, webappFinalizer)))
    /\ UNCHANGED <<deployment, service, now, existing, err>>

\* setCondition writing through r.Update instead of r.Status().Update.
setConditionThroughUpdate(o, condType, status, reason, message, fault) ==
    LET cond == Condition(condType, status, reason, message, o.generation)
        local == [o EXCEPT !.status.conditions = SetStatusCondition(@, cond, now)]
        r == UpdateWebApp(webapp, local, fault)
    IN [err |-> IF r.err = Nil THEN Nil
                ELSE "updating status condition " \o condType \o ": " \o r.err,
        stored |-> r.stored, local |-> r.local, cond |-> cond]

\* setCondition stamping the generation on True conditions only.
setConditionHalfStamped(o, condType, status, reason, message, fault) ==
    LET cond == Condition(condType, status, reason, message,
                          IF status = ConditionTrue THEN o.generation ELSE 0)
        local == [o EXCEPT !.status.conditions = SetStatusCondition(@, cond, now)]
        r == UpdateWebAppStatus(webapp, local, fault)
    IN [err |-> IF r.err = Nil THEN Nil
                ELSE "updating status condition " \o condType \o ": " \o r.err,
        stored |-> r.stored, local |-> r.local, cond |-> cond]

\* setCondition: SetStatusCondition on the in-memory WebApp o, stamped with its
\* generation, then r.Status().Update.  Yields the wrapped error, the store's
\* record and the in-memory record afterwards.
setCondition(o, condType, status, reason, message, fault) ==
    LET cond == Condition(condType, status, reason, message, o.generation)
        local == [o EXCEPT !.status.conditions = SetStatusCondition(@, cond, now)]
        r == UpdateWebAppStatus(webapp, local, fault)
    IN [err |-> IF r.err = Nil THEN Nil
                ELSE "updating status condition " \o condType \o ": " \o r.err,
        stored |-> r.stored, local |-> r.local, cond |-> cond]

\* What a setCondition call r leaves behind in invocation i, which returns
\* resOk or resErr if this was its last call.
StatusStep(i, r, resOk, resErr) ==
    /\ webapp' = r.stored
    /\ obj' = WebAppCopies(i, r.local, r.stored # webapp)
    /\ ops' = Logged(i, "status", "WebApp", r.err, r.cond)
    /\ pc' = [pc EXCEPT ![i] = NextCall(pc[i], r.err)]
    /\ result' = [result EXCEPT ![i] = IF r.err = Nil THEN resOk ELSE resErr]

\* Mark the resource as Progressing while we reconcile.
MarkProgressing(i, F) ==
    /\ pc[i] = "MarkProgressing"
    /\ \E fault \in Outcomes(pc[i], F) :
        LET r == setCondition(obj[i], TypeProgressing, ConditionTrue, "Reconciling",
                              "reconciliation in progress", fault)
        IN StatusStep(i, r, NoResult, Failure(r.err))
    /\ UNCHANGED <<deployment, service, now, finalizerLanded, existing, err>>

\* reconcileDeployment up to its r.Get: build the desired Deployment, read the
\* existing one and prepare the create or the selective update.
DeploymentGet(i, F) ==
    /\ pc[i] = "DeploymentGet"
    /\ \E fault \in Outcomes(pc[i], F) :
        LET desired == DesiredDeployment(obj[i])
            e == IF fault THEN ErrUnavailable
                 ELSE IF ~deployment.exists THEN ErrNotFound ELSE Nil
        IN /\ ops' = Logged(i, "get", "Deployment", e, NoCondition)
           /\ existing' = [existing EXCEPT ![i] =
                  IF e = ErrNotFound THEN desired
                  ELSE IF e = Nil THEN MergeDeployment(deployment, desired)
                  ELSE NoDeployment]
           /\ err' = [err EXCEPT ![i] =
                  IF IgnoreNotFound(e) # Nil THEN "getting deployment: " \o e ELSE Nil]
           /\ pc' = [pc EXCEPT ![i] = NextCall(pc[i], e)]
    /\ UNCHANGED <<storeVars, now, finalizerLanded, obj, result>>

\* reconcileDeployment's r.Create.
DeploymentCreate(i, F) ==
    /\ pc[i] = "DeploymentCreate"
    /\ \E fault \in Outcomes(pc[i], F) :
        LET r == CreateChild(deployment, existing[i], fault) IN
        /\ deployment' = r.stored
        /\ ops' = Logged(i, "create", "Deployment", r.err, NoCondition)
        /\ err' = [err EXCEPT ![i] = r.err]
        /\ pc' = [pc EXCEPT ![i] = NextCall(pc[i], r.err)]
    /\ existing' = ChildCopies(i, "DeploymentUpdate", deployment' # deployment)
    /\ UNCHANGED <<webapp, service, now, finalizerLanded, obj, result>>

\* reconcileDeployment's r.Update.
DeploymentUpdate(i, F) ==
    /\ pc[i] = "DeploymentUpdate"
    /\ \E fault \in Outcomes(pc[i], F) :
        LET r == UpdateChild(deployment, existing[i], fault) IN
        /\ deployment' = r.stored
        /\ ops' = Logged(i, "update", "Deployment", r.err, NoCondition)
        /\ err' = [err EXCEPT ![i] = r.err]
        /\ pc' = [pc EXCEPT ![i] = NextCall(pc[i], r.err)]
    /\ existing' = ChildCopies(i, "DeploymentUpdate", deployment' # deployment)
    /\ UNCHANGED <<webapp, service, now, finalizerLanded, obj, result>>

\* The Degraded write after reconcileDeployment failed; its own error is dropped.
DeploymentFailed(i, F) ==
    /\ pc[i] = "DeploymentFailed"
    /\ \E fault \in Outcomes(pc[i], F) :
        LET r == setCondition(obj[i], TypeDegraded, ConditionTrue, "DeploymentFailed",
                              err[i], fault)
            res == Failure("reconciling deployment: " \o err[i])
        IN StatusStep(i, r, res, res)
    /\ UNCHANGED <<deployment, service, now, finalizerLanded, existing, err>>

\* reconcileService up to its r.Get.
ServiceGet(i, F) ==
    /\ pc[i] = "ServiceGet"
    /\ \E fault \in Outcomes(pc[i], F) :
        LET desired == DesiredService(obj[i])
            e == IF fault THEN ErrUnavailable
                 ELSE IF ~service.exists THEN ErrNotFound ELSE Nil
        IN /\ ops' = Logged(i, "get", "Service", e, NoCondition)
           /\ existing' = [existing EXCEPT ![i] =
                  IF e = ErrNotFound THEN desired
                  ELSE IF e = Nil THEN MergeService(service, desired)
                  ELSE NoDeployment]
           /\ err' = [err EXCEPT ![i] =
                  IF IgnoreNotFound(e) # Nil THEN "getting service: " \o e ELSE Nil]
           /\ pc' = [pc EXCEPT ![i] = NextCall(pc[i], e)]
    /\ UNCHANGED <<storeVars, now, finalizerLanded, obj, result>>

\* reconcileService's r.Create.
ServiceCreate(i, F) ==
    /\ pc[i] = "ServiceCreate"
    /\ \E fault \in Outcomes(pc[i], F) :
        LET r == CreateChild(service, existing[i], fault) IN
        /\ service' = r.stored
        /\ ops' = Logged(i, "create", "Service", r.err, NoCondition)
        /\ err' = [err EXCEPT ![i] = r.err]
        /\ pc' = [pc EXCEPT ![i] = NextCall(pc[i], r.err)]
    /\ existing' = ChildCopies(i, "ServiceUpdate", service' # service)
    /\ UNCHANGED <<webapp, deployment, now, finalizerLanded, obj, result>>

\* reconcileService's r.Update.
ServiceUpdate(i, F) ==
    /\ pc[i] = "ServiceUpdate"
    /\ \E fault \in Outcomes(pc[i], F) :
        LET r == UpdateChild(service, existing[i], fault) IN
        /\ service' = r.stored
        /\ ops' = Logged(i, "update", "Service", r.err, NoCondition)
        /\ err' = [err EXCEPT ![i] = r.err]
        /\ pc' = [pc EXCEPT ![i] = NextCall(pc[i], r.err)]
    /\ existing' = ChildCopies(i, "ServiceUpdate", service' # service)
    /\ UNCHANGED <<webapp, deployment, now, finalizerLanded, obj, result>>

\* The Degraded write after reconcileService failed; its own error is dropped.
ServiceFailed(i, F) ==
    /\ pc[i] = "ServiceFailed"
    /\ \E fault \in Outcomes(pc[i], F) :
        LET r == setCondition(obj[i], TypeDegraded, ConditionTrue, "ServiceFailed",
                              err[i], fault)
            res == Failure("reconciling service: " \o err[i])
        IN StatusStep(i, r, res, res)
    /\ UNCHANGED <<deployment, service, now, finalizerLanded, existing, err>>

\* Fetch the current Deployment to read available replicas for status.
StatusGet(i, F) ==
    /\ pc[i] = "StatusGet"
    /\ \E fault \in Outcomes(pc[i], F) :
        LET e == IF fault THEN ErrUnavailable
                 ELSE IF ~deployment.exists THEN ErrNotFound ELSE Nil
        IN /\ ops' = Logged(i, "get", "Deployment", e, NoCondition)
           /\ obj' = [obj EXCEPT ![i] =
                  IF e = Nil
                  THEN [@ EXCEPT !.status.availableReplicas = deployment.availableReplicas]
                  ELSE @]
           /\ pc' = [pc EXCEPT ![i] = NextCall(pc[i], e)]
           /\ result' = [result EXCEPT ![i] =
                  IF e = Nil THEN @
                  ELSE Failure("fetching deployment for status: " \o e)]
    /\ UNCHANGED <<storeVars, now, finalizerLanded, existing, err>>

\* Update status with observed replica count and Available condition.
SetAvailable(i, F) ==
    /\ pc[i] = "SetAvailable"
    /\ \E fault \in Outcomes(pc[i], F) :
        LET c == AvailableCondition(obj[i].status.availableReplicas, 0)
            r == setCondition(obj[i], c.type, c.status, c.reason, c.message, fault)
        IN StatusStep(i, r, NoResult, Failure(r.err))
    /\ UNCHANGED <<deployment, service, now, finalizerLanded, existing, err>>

\* ClearProgressing writing the Condition with the state it already has.
ClearProgressingLeftTrue(i, F) ==
    /\ pc[i] = "ClearProgressing"
    /\ \E fault \in Outcomes(pc[i], F) :
        LET r == setCondition(obj[i], TypeProgressing, ConditionTrue,
                              "ReconcileComplete", "reconciliation complete", fault)
        IN StatusStep(i, r, NoResult, Failure(r.err))
    /\ UNCHANGED <<deployment, service, now, finalizerLanded, existing, err>>

\* Progressing=False once the pass has reconciled the children.
ClearProgressing(i, F) ==
    /\ pc[i] = "ClearProgressing"
    /\ \E fault \in Outcomes(pc[i], F) :
        LET r == setCondition(obj[i], TypeProgressing, ConditionFalse,
                              "ReconcileComplete", "reconciliation complete", fault)
        IN StatusStep(i, r, NoResult, Failure(r.err))
    /\ UNCHANGED <<deployment, service, now, finalizerLanded, existing, err>>

\* The last status write; on success Reconcile returns the periodic requeue.
ClearDegraded(i, F) ==
    /\ pc[i] = "ClearDegraded"
    /\ \E fault \in Outcomes(pc[i], F) :
        LET r == setCondition(obj[i], TypeDegraded, ConditionFalse,
                              "ReconcileComplete", "no errors", fault)
        IN StatusStep(i, r, Periodic, Failure(r.err))
    /\ UNCHANGED <<deployment, service, now, finalizerLanded, existing, err>>

\* The invocation has returned; the worker forgets everything it held.
Return(i) ==
    /\ pc[i] = "done"
    /\ pc' = [pc EXCEPT ![i] = "idle"]
    /\ obj' = [obj EXCEPT ![i] = NoWebApp]
    /\ existing' = [existing EXCEPT ![i] = NoDeployment]
    /\ err' = [err EXCEPT ![i] = Nil]
    /\ result' = [result EXCEPT ![i] = NoResult]
    /\ ops' = [ops EXCEPT ![i] = <<>>]
    /\ UNCHANGED <<storeVars, now, finalizerLanded>>

\* The process dies in the middle of an invocation.
Abort(i) ==
    /\ pc[i] \notin {"idle", "done"}
    /\ pc' = [pc EXCEPT ![i] = "idle"]
    /\ obj' = [obj EXCEPT ![i] = NoWebApp]
    /\ existing' = [existing EXCEPT ![i] = NoDeployment]
    /\ err' = [err EXCEPT ![i] = Nil]
    /\ result' = [result EXCEPT ![i] = NoResult]
    /\ ops' = [ops EXCEPT ![i] = <<>>]
    /\ UNCHANGED <<storeVars, now, finalizerLanded>>

\* One step of invocation i of Reconcile.  F is the set of calls (named by
\* program point) that can fail transiently.
Reconcile(i, F) ==
    \/ Fetch(i, F)
    \/ Cleanup(i, F)
    \/ RemoveFinalizerUpdate(i, F)
    \/ AddFinalizerUpdate(i, F)
    \/ MarkProgressing(i, F)
    \/ DeploymentGet(i, F)
    \/ DeploymentCreate(i, F)
    \/ DeploymentUpdate(i, F)
    \/ DeploymentFailed(i, F)
    \/ ServiceGet(i, F)
    \/ ServiceCreate(i, F)
    \/ ServiceUpdate(i, F)
    \/ ServiceFailed(i, F)
    \/ StatusGet(i, F)
    \/ SetAvailable(i, F)
    \/ ClearProgressing(i, F)
    \/ ClearDegraded(i, F)
    \/ Return(i)

\* ------------------------------------------------------- the world outside
\* The user edits desiredState: the store bumps generation.
EditSpec ==
    /\ webapp.exists
    /\ webapp.generation < MaxGeneration
    /\ \E d \in DesiredStates \ {webapp.spec} :
        webapp' = [webapp EXCEPT !.spec = d,
                                 !.generation = @ + 1]
    /\ OutsideWroteWebApp
    /\ UNCHANGED <<deployment, service, now, finalizerLanded>>

\* The user submits a desired state no workload can be made of.
SubmitInvalid ==
    /\ webapp.exists
    /\ webapp.generation < MaxGeneration
    /\ webapp.spec # SpecEmptyImage
    /\ webapp' = [webapp EXCEPT !.spec = SpecEmptyImage,
                                 !.generation = @ + 1]
    /\ OutsideWroteWebApp
    /\ UNCHANGED <<deployment, service, now, finalizerLanded>>

\* The user deletes the WebApp: a soft delete while finalizer tokens remain.
RequestDeletion ==
    /\ webapp.exists
    /\ ~webapp.deleting
    /\ webapp' = Settle([webapp EXCEPT !.deleting = TRUE])
    /\ OutsideWroteWebApp
    /\ UNCHANGED <<deployment, service, now, finalizerLanded>>

\* Another controller releases its own finalizer token.
ReleaseOtherFinalizer ==
    /\ webapp.exists
    /\ webapp.deleting
    /\ ContainsFinalizer(webapp, otherFinalizer)
    /\ webapp' = Settle(RemoveFinalizer(webapp, otherFinalizer))
    /\ OutsideWroteWebApp
    /\ UNCHANGED <<deployment, service, now, finalizerLanded>>

\* The store's garbage collector removes children whose owner is gone.
GarbageCollect ==
    /\ ~webapp.exists
    /\ \/ /\ deployment.exists
          /\ deployment.owner = WebAppName
          /\ deployment' = NoDeployment
          /\ OutsideWroteChild("DeploymentUpdate")
          /\ UNCHANGED service
       \/ /\ service.exists
          /\ service.owner = WebAppName
          /\ service' = NoService
          /\ OutsideWroteChild("ServiceUpdate")
          /\ UNCHANGED deployment
    /\ UNCHANGED <<webapp, now, finalizerLanded>>

\* The deployment controller reports how many replicas are available.
DeploymentController ==
    /\ deployment.exists
    /\ \E n \in 0..deployment.replicas :
        /\ n # deployment.availableReplicas
        /\ deployment' = [deployment EXCEPT
                             !.availableReplicas = n]
    /\ OutsideWroteChild("DeploymentUpdate")
    /\ UNCHANGED <<webapp, service, now, finalizerLanded>>

\* Other writers of the Deployment: a field the engine does not own (paused),
\* a sidecar container put in front of the engine's, a manual scale to zero.
ExternalDeploymentEdit ==
    /\ deployment.exists
    /\ \E edit \in {"pause", "inject", "scale"} :
        LET new == CASE edit = "pause" -> [deployment EXCEPT !.paused = TRUE]
                     [] edit = "inject" ->
                            IF \E k \in 1..Len(deployment.containers) :
                                   deployment.containers[k].name = SidecarName
                            THEN deployment
                            ELSE [deployment EXCEPT !.containers =
                                     << [name |-> SidecarName, image |-> "mesh:1",
                                         port |-> 15001] >> \o @]
                     [] edit = "scale" -> [deployment EXCEPT !.replicas = 0,
                                                             !.availableReplicas = 0]
        IN /\ new # deployment
           /\ deployment' = new
    /\ OutsideWroteChild("DeploymentUpdate")
    /\ UNCHANGED <<webapp, service, now, finalizerLanded>>

\* Other writers of the Service: an annotation the engine does not own, a
\* manual change of the port.
ExternalServiceEdit ==
    /\ service.exists
    /\ \E edit \in {"annotate", "port"} :
        LET new == CASE edit = "annotate" -> [service EXCEPT !.annotated = TRUE]
                     [] edit = "port" -> [service EXCEPT !.port = 80]
        IN /\ new # service
           /\ service' = new
    /\ OutsideWroteChild("ServiceUpdate")
    /\ UNCHANGED <<webapp, deployment, now, finalizerLanded>>

\* A Deployment and a Service of the WebApp's name that somebody else made:
\* they carry no owner reference.
ForeignDeployment ==
    [exists |-> TRUE, resourceVersion |-> CurrentVersion, owner |-> Nil,
     replicas |-> 1, selector |-> labelsForWebApp(WebAppName),
     containers |-> << [name |-> ContainerName, image |-> "legacy:0", port |-> 80] >>,
     paused |-> FALSE, availableReplicas |-> 0]

ForeignService ==
    [exists |-> TRUE, resourceVersion |-> CurrentVersion, owner |-> Nil,
     selector |-> labelsForWebApp(WebAppName), port |-> 80, targetPort |-> 80,
     type |-> "ClusterIP", annotated |-> FALSE]

\* Another writer creates a child of the WebApp's name while there is none.
ExternalChildCreate ==
    /\ \/ /\ ~deployment.exists
          /\ deployment' = ForeignDeployment
          /\ OutsideWroteChild("DeploymentUpdate")
          /\ UNCHANGED service
       \/ /\ ~service.exists
          /\ service' = ForeignService
          /\ OutsideWroteChild("ServiceUpdate")
          /\ UNCHANGED deployment
    /\ UNCHANGED <<webapp, now, finalizerLanded>>

\* Another writer moves a field the engine is authoritative over away from
\* the value derived from the desired state: image or port of the engine's
\* container, the replica count, the Service's port or selector.
ExternalDrift ==
    /\ \/ /\ deployment.exists
          /\ \E field \in {"image", "port", "replicas"} :
                deployment' =
                   IF field = "replicas" THEN [deployment EXCEPT !.replicas = 5]
                   ELSE [deployment EXCEPT !.containers =
                           [k \in 1..Len(@) |->
                              IF @[k].name # ContainerName THEN @[k]
                              ELSE IF field = "image"
                              THEN [@[k] EXCEPT !.image = "rogue:9"]
                              ELSE [@[k] EXCEPT !.port = 81]]]
          /\ deployment' # deployment
          /\ OutsideWroteChild("DeploymentUpdate")
          /\ UNCHANGED service
       \/ /\ service.exists
          /\ \E field \in {"port", "selector"} :
                service' = IF field = "port"
                           THEN [service EXCEPT !.port = 81, !.targetPort = 81]
                           ELSE [service EXCEPT !.selector = NoLabels]
          /\ service' # service
          /\ OutsideWroteChild("ServiceUpdate")
          /\ UNCHANGED deployment
    /\ UNCHANGED <<webapp, now, finalizerLanded>>

\* Another writer puts a sidecar container in front of the engine's.
InjectSidecar ==
    /\ deployment.exists
    /\ \A k \in 1..Len(deployment.containers) :
          deployment.containers[k].name # SidecarName
    /\ deployment' = [deployment EXCEPT !.containers =
                         << [name |-> SidecarName, image |-> "mesh:1",
                             port |-> 15001] >> \o @]
    /\ OutsideWroteChild("DeploymentUpdate")
    /\ UNCHANGED <<webapp, service, now, finalizerLanded>>

\* Time passes.
Tick ==
    /\ now < MaxTime
    /\ now' = now + 1
    /\ UNCHANGED <<storeVars, finalizerLanded, localVars>>

\* ------------------------------------------------------------ history
\* idem follows invocations that run one after the other with no write from
\* outside in between or underneath: "first" while the first runs, "between"
\* once it has returned (first holds what it left in the store and what it
\* returned), "second" while the next one runs, "checked" once that one has
\* returned (res2 holds what it returned, the store what it left).
Tracked(i) ==
    idem' =
      LET started ==
            IF pc[i] # "idle" THEN idem
            ELSE IF idem.phase = "between" THEN [idem EXCEPT !.phase = "second"]
            ELSE IF idem.phase = "checked"
            THEN [phase |-> "second",
                  first |-> [status |-> webapp.status, deployment |-> deployment,
                             service |-> service, res |-> idem.res2],
                  res2 |-> NoResult]
            ELSE [NoPasses EXCEPT !.phase = "first"]
      IN IF pc'[i] = "idle" /\ pc[i] \notin {"idle", "done"} THEN NoPasses
         ELSE IF pc'[i] = "done" /\ pc[i] # "done"
         THEN IF started.phase = "first"
              THEN [phase |-> "between",
                    first |-> [status |-> webapp'.status, deployment |-> deployment',
                               service |-> service', res |-> result'[i]],
                    res2 |-> NoResult]
              ELSE IF started.phase = "second"
              THEN [started EXCEPT !.phase = "checked", !.res2 = result'[i]]
              ELSE started
         ELSE started

\* A write from outside the engine ends the run of undisturbed invocations.
Disturbed == idem' = NoPasses

\* The worker of the elected leader.
Primary == "w1"

\* Spec: the engine against the WebApp's lifecycle (desired-state edits,
\* deletion, finalizers of others, garbage collection) and a failing store.
Next ==
    \/ Reconcile(Primary, StoreCalls) /\ UNCHANGED <<idem, rejected>>
    \/ Abort(Primary) /\ UNCHANGED <<idem, rejected>>
    \/ EditSpec /\ UNCHANGED <<idem, rejected>>
    \/ RequestDeletion /\ UNCHANGED <<idem, rejected>>
    \/ ReleaseOtherFinalizer /\ UNCHANGED <<idem, rejected>>
    \/ GarbageCollect /\ UNCHANGED <<idem, rejected>>

Spec == Init /\ [][Next]_vars

\* SpecChildren: the engine against the other writers of its children.
NextChildren ==
    \/ Reconcile(Primary, {"DeploymentCreate", "ServiceCreate"}) /\ UNCHANGED <<idem, rejected>>
    \/ Abort(Primary) /\ UNCHANGED <<idem, rejected>>
    \/ RequestDeletion /\ UNCHANGED <<idem, rejected>>
    \/ DeploymentController /\ UNCHANGED <<idem, rejected>>
    \/ ExternalDeploymentEdit /\ UNCHANGED <<idem, rejected>>
    \/ ExternalServiceEdit /\ UNCHANGED <<idem, rejected>>

SpecChildren == InitPlain /\ [][NextChildren]_vars

\* SpecClock: the engine while time passes.
NextClock ==
    \/ Reconcile(Primary, {"DeploymentCreate", "ServiceCreate"}) /\ Tracked(Primary)
         /\ UNCHANGED rejected
    \/ Abort(Primary) /\ Tracked(Primary) /\ UNCHANGED rejected
    \/ RequestDeletion /\ Disturbed /\ UNCHANGED rejected
    \/ DeploymentController /\ Disturbed /\ UNCHANGED rejected
    \/ Tick /\ UNCHANGED <<idem, rejected>>

SpecClock == InitPlain /\ [][NextClock]_vars

\* A write of the WebApp (finalizer update or status update) that the store
\* rejected because the record had changed since it was read.
RejectedWrite(op) ==
    /\ op.kind = "WebApp"
    /\ \/ op.verb = "update" /\ op.err = ErrConflict
       \/ op.verb = "status"
            /\ op.err = "updating status condition " \o op.cond.type \o ": "
                           \o ErrConflict

\* A store call that did what it was asked to; a get that finds nothing did.
Served(op) == op.err = Nil \/ (op.verb = "get" /\ op.err = ErrNotFound)

\* rejected follows the invocations as they return: "rejected" when one had
\* a write of the WebApp rejected for a conflict, "recovered" when the one
\* after such an invocation was served every call and returned no error,
\* "no" otherwise.  An invocation that dies leaves it as it is.
Remembered(i) ==
    rejected' =
        IF pc'[i] = "done" /\ pc[i] # "done"
        THEN IF \E k \in 1..Len(ops'[i]) : RejectedWrite(ops'[i][k])
             THEN "rejected"
             ELSE IF /\ rejected = "rejected"
                     /\ \A k \in 1..Len(ops'[i]) : Served(ops'[i][k])
                     /\ result'[i].err = Nil
             THEN "recovered"
             ELSE "no"
        ELSE rejected

\* SpecConflict: the engine against writers of the WebApp's own record.
NextConflict ==
    \/ Reconcile(Primary, {"DeploymentCreate", "ServiceCreate"}) /\ Remembered(Primary)
         /\ UNCHANGED idem
    \/ Abort(Primary) /\ UNCHANGED <<idem, rejected>>
    \/ EditSpec /\ UNCHANGED <<idem, rejected>>
    \/ RequestDeletion /\ UNCHANGED <<idem, rejected>>

SpecConflict == InitPlain /\ [][NextConflict]_vars

\* SpecEdits: the engine against desired-state edits and the other writers
\* of the Deployment.
NextEdits ==
    \/ Reconcile(Primary, {"DeploymentCreate", "ServiceCreate"}) /\ UNCHANGED <<idem, rejected>>
    \/ Abort(Primary) /\ UNCHANGED <<idem, rejected>>
    \/ EditSpec /\ UNCHANGED <<idem, rejected>>
    \/ RequestDeletion /\ UNCHANGED <<idem, rejected>>
    \/ ExternalDeploymentEdit /\ UNCHANGED <<idem, rejected>>

SpecEdits == InitPlain /\ [][NextEdits]_vars

\* SpecLive: the engine re-delivered for ever, against a store that fails
\* some calls, edits and a deletion request.  Re-delivery is fair and the
\* store does not fail the same call for ever: a step that the store
\* serves is taken at every program point of the deletion path that keeps
\* coming back, and any other step is taken if it stays possible.
NextLive ==
    \/ Reconcile(Primary, {"RemoveFinalizer", "DeploymentCreate", "ServiceCreate"})
         /\ UNCHANGED <<idem, rejected>>
    \/ Abort(Primary) /\ UNCHANGED <<idem, rejected>>
    \/ EditSpec /\ UNCHANGED <<idem, rejected>>
    \/ RequestDeletion /\ UNCHANGED <<idem, rejected>>

DeletionPath == {"idle", "Cleanup", "RemoveFinalizer", "done"}

ServedStep(at) ==
    pc[Primary] = at /\ Reconcile(Primary, {}) /\ UNCHANGED <<idem, rejected>>

SpecLive ==
    /\ InitPlain
    /\ [][NextLive]_vars
    /\ \A at \in DeletionPath : SF_vars(ServedStep(at))
    /\ WF_vars(Reconcile(Primary, {}) /\ UNCHANGED <<idem, rejected>>)

\* SpecAdopt: the engine in a namespace where another writer may have made a
\* Deployment or a Service of the WebApp's name.
NextAdopt ==
    \/ Reconcile(Primary, {"DeploymentCreate", "ServiceCreate"})
         /\ UNCHANGED <<idem, rejected>>
    \/ Abort(Primary) /\ UNCHANGED <<idem, rejected>>
    \/ RequestDeletion /\ UNCHANGED <<idem, rejected>>
    \/ ExternalChildCreate /\ UNCHANGED <<idem, rejected>>

SpecAdopt == InitPlain /\ [][NextAdopt]_vars

\* SpecDrift: the engine re-delivered for ever (the periodic re-delivery and
\* the retries are the only triggers) while other writers move the children
\* away from the desired state.  idem tells the passes that ran with no write
\* from outside since they started.
OutsideChildWrite == ExternalDrift \/ InjectSidecar

NextDrift ==
    \/ Reconcile(Primary, {}) /\ Tracked(Primary) /\ UNCHANGED rejected
    \/ ExternalDrift /\ Disturbed /\ UNCHANGED rejected
    \/ InjectSidecar /\ Disturbed /\ UNCHANGED rejected
    \/ RequestDeletion /\ Disturbed /\ UNCHANGED rejected

SpecDrift ==
    /\ InitPlain
    /\ [][NextDrift]_vars
    /\ WF_vars(Reconcile(Primary, {}) /\ Tracked(Primary) /\ UNCHANGED rejected)

\* SpecCrash: invocations that the process may drop at any point, with no
\* write from outside while one is under way; between invocations the user
\* edits or deletes the WebApp and the deployment controller reports.
Idle == pc[Primary] = "idle"

NextCrash ==
    \/ Reconcile(Primary, {"DeploymentCreate", "ServiceCreate"})
         /\ UNCHANGED <<idem, rejected>>
    \/ Abort(Primary) /\ UNCHANGED <<idem, rejected>>
    \/ Idle /\ EditSpec /\ UNCHANGED <<idem, rejected>>
    \/ Idle /\ RequestDeletion /\ UNCHANGED <<idem, rejected>>
    \/ Idle /\ DeploymentController /\ UNCHANGED <<idem, rejected>>

SpecCrash == InitPlain /\ [][NextCrash]_vars

\* SpecConverge: the engine re-delivered for ever, fairly, against a store
\* that may fail the writes of the children, a user who edits or deletes the
\* WebApp, and another writer who adds a sidecar to the Deployment.
NextConverge ==
    \/ Reconcile(Primary, {"DeploymentCreate", "DeploymentUpdate", "ServiceCreate"})
         /\ UNCHANGED <<idem, rejected>>
    \/ EditSpec /\ UNCHANGED <<idem, rejected>>
    \/ RequestDeletion /\ UNCHANGED <<idem, rejected>>
    \/ InjectSidecar /\ UNCHANGED <<idem, rejected>>

SpecConverge ==
    /\ InitPlain
    /\ [][NextConverge]_vars
    /\ WF_vars(Reconcile(Primary, {"DeploymentCreate", "DeploymentUpdate",
                                   "ServiceCreate"})
                 /\ UNCHANGED <<idem, rejected>>)

\* SpecStale: the engine against a store that fails the writes of the
\* children and the status writes that end a pass, and a process that dies
\* in the middle of a pass; idem keeps what the invocation before the running
\* one left behind, an aborted one included.
AbortTracked(i) ==
    /\ Abort(i)
    /\ idem' = [phase |-> "between",
                first |-> [status |-> webapp.status, deployment |-> deployment,
                           service |-> service, res |-> NoResult],
                res2 |-> NoResult]

NextStale ==
    \/ Reconcile(Primary, {"DeploymentCreate", "ServiceCreate", "SetAvailable",
                           "ClearProgressing", "ClearDegraded"})
         /\ Tracked(Primary) /\ UNCHANGED rejected
    \/ AbortTracked(Primary) /\ UNCHANGED rejected
    \/ RequestDeletion /\ Disturbed /\ UNCHANGED rejected

SpecStale == InitPlain /\ [][NextStale]_vars

\* SpecOverlap: two invocations for the same key at once, as when a leader
\* that lost its lease is still in a pass while its successor starts one, and
\* a user who edits or deletes the WebApp.  No call fails and nobody else
\* writes the children.
NextOverlap ==
    \/ \E i \in Workers : Reconcile(i, {}) /\ UNCHANGED <<idem, rejected>>
    \/ EditSpec /\ UNCHANGED <<idem, rejected>>
    \/ RequestDeletion /\ UNCHANGED <<idem, rejected>>

SpecOverlap == InitPlain /\ [][NextOverlap]_vars

\* SpecHandover: two invocations for the same key at once while the WebApp is
\* deleted; another controller may hold a finalizer token of its own.
NextHandover ==
    \/ \E i \in Workers : Reconcile(i, {}) /\ UNCHANGED <<idem, rejected>>
    \/ RequestDeletion /\ UNCHANGED <<idem, rejected>>
    \/ ReleaseOtherFinalizer /\ UNCHANGED <<idem, rejected>>

SpecHandover == Init /\ [][NextHandover]_vars

\* SpecRace: the engine against other writers who create or modify the
\* children at any moment, between a synchronizer's read and its write too.
NextRace ==
    \/ Reconcile(Primary, {}) /\ UNCHANGED <<idem, rejected>>
    \/ ExternalChildCreate /\ UNCHANGED <<idem, rejected>>
    \/ ExternalDeploymentEdit /\ UNCHANGED <<idem, rejected>>
    \/ ExternalServiceEdit /\ UNCHANGED <<idem, rejected>>
    \/ RequestDeletion /\ UNCHANGED <<idem, rejected>>

SpecRace == InitPlain /\ [][NextRace]_vars

\* SpecShape: the synchronizers computing the desired children for a WebApp
\* submitted with any of the desired states, at any generation, by two
\* invocations whose copies of the WebApp differ in everything but the
\* desired state.
InitSubmitted(d, g) ==
    /\ webapp = [exists |-> TRUE, resourceVersion |-> CurrentVersion, generation |-> g,
                 deleting |-> FALSE, finalizers |-> <<>>, spec |-> d,
                 status |-> [availableReplicas |-> 0, conditions |-> <<>>]]
    /\ deployment = NoDeployment
    /\ service = NoService
    /\ now = 0
    /\ finalizerLanded = FALSE
    /\ pc = [i \in Workers |-> "idle"]
    /\ obj = [i \in Workers |-> NoWebApp]
    /\ existing = [i \in Workers |-> NoDeployment]
    /\ err = [i \in Workers |-> Nil]
    /\ result = [i \in Workers |-> NoResult]
    /\ ops = [i \in Workers |-> <<>>]
    /\ idem = NoPasses
    /\ rejected = "no"

InitShape == \E d \in DesiredStates, g \in 1..MaxGeneration : InitSubmitted(d, g)

NextShape ==
    \/ \E i \in Workers : Reconcile(i, {}) /\ UNCHANGED <<idem, rejected>>
    \/ RequestDeletion /\ UNCHANGED <<idem, rejected>>

SpecShape == InitShape /\ [][NextShape]_vars

\* ------------------------------------------------------------ several keys
\* SpecKeys: two WebApps of the same name in two namespaces, each reconciled
\* by its own worker, in parallel.  In this specification webapp, deployment
\* and service hold one record per key, and every record carries its name
\* and namespace; an invocation addresses the store by the key of its
\* request (the fetch) and by the name and namespace of the object it holds
\* (every other call).
KeyA == [namespace |-> "default", name |-> WebAppName]
KeyB == [namespace |-> "staging", name |-> WebAppName]
Keys == {KeyA, KeyB}

\* The request each worker is handed.
Request(i) == IF i = Primary THEN KeyA ELSE KeyB

\* types.NamespacedName taking the namespace for granted.
NamespacedNameDefault(o) == [namespace |-> "default", name |-> o.name]

\* types.NamespacedName{Name: o.Name, Namespace: o.Namespace}
NamespacedName(o) == [namespace |-> o.namespace, name |-> o.name]

\* A record with the name and namespace of key k.
Named(rec, k) ==
    [f \in DOMAIN rec \cup {"name", "namespace"} |->
        IF f = "name" THEN k.name
        ELSE IF f = "namespace" THEN k.namespace
        ELSE rec[f]]

\* The WebApp the user made under key k.
SubmittedWebApp(k) ==
    Named([exists |-> TRUE, resourceVersion |-> CurrentVersion, generation |-> 1,
           deleting |-> FALSE, finalizers |-> <<>>,
           spec |-> IF k = KeyA THEN SpecA ELSE SpecC,
           status |-> [availableReplicas |-> 0, conditions |-> <<>>]], k)

InitKeys ==
    /\ webapp = [k \in Keys |-> SubmittedWebApp(k)]
    /\ deployment = [k \in Keys |-> Named(NoDeployment, k)]
    /\ service = [k \in Keys |-> Named(NoService, k)]
    /\ now = 0
    /\ finalizerLanded = FALSE
    /\ pc = [i \in Workers |-> "idle"]
    /\ obj = [i \in Workers |-> Named(NoWebApp, Request(i))]
    /\ existing = [i \in Workers |-> NoDeployment]
    /\ err = [i \in Workers |-> Nil]
    /\ result = [i \in Workers |-> NoResult]
    /\ ops = [i \in Workers |-> <<>>]
    /\ idem = NoPasses
    /\ rejected = "no"

\* The call log of invocation i with its current call, made at key k, added.
LoggedAt(i, k, verb, kind, e, cond) ==
    [ops EXCEPT ![i] = Append(@, [at |-> pc[i], verb |-> verb, kind |-> kind,
                                  err |-> e, cond |-> cond, key |-> k])]

\* r.Get(ctx, req.NamespacedName, webapp) and the branch on what it returned.
KeyedFetch(i) ==
    /\ pc[i] = "idle"
    /\ LET k == Request(i)
           e == IF ~webapp[k].exists THEN ErrNotFound ELSE Nil
       IN /\ ops' = LoggedAt(i, k, "get", "WebApp", e, NoCondition)
          /\ obj' = [obj EXCEPT ![i] = IF e = Nil THEN webapp[k] ELSE @]
          /\ pc' = [pc EXCEPT ![i] = IF e = Nil THEN AfterFetch(webapp[k]) ELSE "done"]
          /\ result' = [result EXCEPT ![i] = IF e = Nil THEN NoResult ELSE Success]
    /\ UNCHANGED <<storeVars, now, finalizerLanded, existing, err>>

\* The finalizer writes: cleanup and RemoveFinalizer on the deletion path,
\* AddFinalizer on the first reconcile, each followed by r.Update.
KeyedFinalizerUpdate(i) ==
    /\ pc[i] \in {"Cleanup", "RemoveFinalizer", "AddFinalizer"}
    /\ IF pc[i] = "Cleanup"
       THEN /\ obj' = [obj EXCEPT ![i] = RemoveFinalizer(@, webappFinalizer)]
            /\ ops' = LoggedAt(i, NamespacedName(obj[i]), "cleanup", "WebApp",
                               cleanupChildResources(obj[i]), NoCondition)
            /\ pc' = [pc EXCEPT ![i] = NextCall(pc[i], Nil)]
            /\ UNCHANGED <<webapp, result>>
       ELSE LET k == NamespacedName(obj[i])
                local == IF pc[i] = "AddFinalizer"
                         THEN AddFinalizer(obj[i], webappFinalizer) ELSE obj[i]
                r == UpdateWebApp(webapp[k], local, FALSE)
            IN /\ webapp' = [webapp EXCEPT ![k] = r.stored]
               /\ obj' = [obj EXCEPT ![i] = r.local]
               /\ ops' = LoggedAt(i, k, "update", "WebApp", r.err, NoCondition)
               /\ pc' = [pc EXCEPT ![i] = NextCall(pc[i], r.err)]
               /\ result' = [result EXCEPT ![i] =
                      IF r.err # Nil THEN Failure(r.err)
                      ELSE IF pc[i] = "AddFinalizer" THEN Requeue ELSE Success]
    /\ UNCHANGED <<deployment, service, now, finalizerLanded, existing, err>>

\* The Condition each status write of Reconcile sets on the WebApp o.
ConditionAt(at, o, e) ==
    CASE at = "MarkProgressing" ->
            Condition(TypeProgressing, ConditionTrue, "Reconciling",
                      "reconciliation in progress", o.generation)
      [] at = "DeploymentFailed" ->
            Condition(TypeDegraded, ConditionTrue, "DeploymentFailed", e, o.generation)
      [] at = "ServiceFailed" ->
            Condition(TypeDegraded, ConditionTrue, "ServiceFailed", e, o.generation)
      [] at = "SetAvailable" ->
            AvailableCondition(o.status.availableReplicas, o.generation)
      [] at = "ClearProgressing" ->
            Condition(TypeProgressing, ConditionFalse, "ReconcileComplete",
                      "reconciliation complete", o.generation)
      [] OTHER ->
            Condition(TypeDegraded, ConditionFalse, "ReconcileComplete",
                      "no errors", o.generation)

\* setCondition: r.Status().Update of the WebApp the invocation holds.
KeyedStatusWrite(i) ==
    /\ pc[i] \in {"MarkProgressing", "DeploymentFailed", "ServiceFailed",
                  "SetAvailable", "ClearProgressing", "ClearDegraded"}
    /\ LET k == NamespacedName(obj[i])
           cond == ConditionAt(pc[i], obj[i], err[i])
           local == [obj[i] EXCEPT
                        !.status.conditions = SetStatusCondition(@, cond, now)]
           r == UpdateWebAppStatus(webapp[k], local, FALSE)
       IN /\ webapp' = [webapp EXCEPT ![k] = r.stored]
          /\ obj' = [obj EXCEPT ![i] = r.local]
          /\ ops' = LoggedAt(i, k, "status", "WebApp", r.err, cond)
          /\ pc' = [pc EXCEPT ![i] = NextCall(pc[i], r.err)]
          /\ result' = [result EXCEPT ![i] =
                 IF pc[i] = "DeploymentFailed"
                 THEN Failure("reconciling deployment: " \o err[i])
                 ELSE IF pc[i] = "ServiceFailed"
                 THEN Failure("reconciling service: " \o err[i])
                 ELSE IF r.err # Nil THEN Failure(r.err)
                 ELSE IF pc[i] = "ClearDegraded" THEN Periodic ELSE NoResult]
    /\ UNCHANGED <<deployment, service, now, finalizerLanded, existing, err>>

\* The reads of the children: by the synchronizers and for status, at the
\* WebApp's name and namespace.
KeyedChildGet(i) ==
    /\ pc[i] \in {"DeploymentGet", "ServiceGet", "StatusGet"}
    /\ LET k == NamespacedName(obj[i])
           kind == IF pc[i] = "ServiceGet" THEN "Service" ELSE "Deployment"
           found == IF kind = "Service" THEN service[k] ELSE deployment[k]
           desired == IF kind = "Service"
                      THEN Named(DesiredService(obj[i]), k)
                      ELSE Named(DesiredDeployment(obj[i]), k)
           e == IF ~found.exists THEN ErrNotFound ELSE Nil
       IN /\ ops' = LoggedAt(i, k, "get", kind, e, NoCondition)
          /\ pc' = [pc EXCEPT ![i] = NextCall(pc[i], e)]
          /\ IF pc[i] = "StatusGet"
             THEN /\ obj' = [obj EXCEPT ![i] =
                         IF e = Nil
                         THEN [@ EXCEPT !.status.availableReplicas =
                                            found.availableReplicas]
                         ELSE @]
                  /\ result' = [result EXCEPT ![i] =
                         IF e = Nil THEN @
                         ELSE Failure("fetching deployment for status: " \o e)]
                  /\ UNCHANGED existing
             ELSE /\ existing' = [existing EXCEPT ![i] =
                         IF e = ErrNotFound THEN desired
                         ELSE IF kind = "Service" THEN MergeService(found, desired)
                         ELSE MergeDeployment(found, desired)]
                  /\ UNCHANGED <<obj, result>>
    /\ UNCHANGED <<storeVars, now, finalizerLanded, err>>

\* The writes of the children: r.Create of the desired child, r.Update of
\* the one that was read, at the name and namespace the object carries.
KeyedChildWrite(i) ==
    /\ pc[i] \in {"DeploymentCreate", "DeploymentUpdate",
                  "ServiceCreate", "ServiceUpdate"}
    /\ \E fault \in BOOLEAN :
        LET k == NamespacedName(existing[i])
            isService == pc[i] \in {"ServiceCreate", "ServiceUpdate"}
            isCreate == pc[i] \in {"DeploymentCreate", "ServiceCreate"}
            stored == IF isService THEN service[k] ELSE deployment[k]
            r == IF isCreate THEN CreateChild(stored, existing[i], fault)
                 ELSE UpdateChild(stored, existing[i], fault)
        IN /\ IF isService
              THEN service' = [service EXCEPT ![k] = r.stored] /\ UNCHANGED deployment
              ELSE deployment' = [deployment EXCEPT ![k] = r.stored] /\ UNCHANGED service
           /\ ops' = LoggedAt(i, k, IF isCreate THEN "create" ELSE "update",
                              IF isService THEN "Service" ELSE "Deployment",
                              r.err, NoCondition)
           /\ err' = [err EXCEPT ![i] = r.err]
           /\ pc' = [pc EXCEPT ![i] = NextCall(pc[i], r.err)]
    /\ existing' = [existing EXCEPT ![i] = NoDeployment]
    /\ UNCHANGED <<webapp, now, finalizerLanded, obj, result>>

\* One step of the invocation of worker i for the key of its request.
KeyedReconcile(i) ==
    \/ KeyedFetch(i)
    \/ KeyedFinalizerUpdate(i)
    \/ KeyedStatusWrite(i)
    \/ KeyedChildGet(i)
    \/ KeyedChildWrite(i)
    \/ Return(i)

\* The user asks for the deletion of the WebApp at key k.
KeyedRequestDeletion(k) ==
    /\ pc[IF k = KeyA THEN Primary ELSE "w2"] = "idle"
    /\ webapp[k].exists /\ ~webapp[k].deleting
    /\ webapp' = [webapp EXCEPT ![k] = Settle([@ EXCEPT !.deleting = TRUE])]
    /\ UNCHANGED <<deployment, service, now, finalizerLanded, localVars>>

NextKeys ==
    \/ \E i \in Workers : KeyedReconcile(i) /\ UNCHANGED <<idem, rejected>>
    \/ \E k \in Keys : KeyedRequestDeletion(k) /\ UNCHANGED <<idem, rejected>>

SpecKeys == InitKeys /\ [][NextKeys]_vars

\* The re-delivery the work queue makes of what Reconcile returned: with
\* exponential backoff after an error, at once or after the interval when
\* asked for, none otherwise.
Redelivery(res) ==
    IF res.err # Nil THEN "backoff"
    ELSE IF res.requeue THEN "immediate"
    ELSE IF res.requeueAfter > 0 THEN "after"
    ELSE "none"

\* SpecInvalid: the engine against desired states that cannot be realized.
NextInvalid ==
    \/ Reconcile(Primary, {"ServiceCreate"}) /\ UNCHANGED <<idem, rejected>>
    \/ Abort(Primary) /\ UNCHANGED <<idem, rejected>>
    \/ SubmitInvalid /\ UNCHANGED <<idem, rejected>>
    \/ EditSpec /\ UNCHANGED <<idem, rejected>>
    \/ RequestDeletion /\ UNCHANGED <<idem, rejected>>

SpecInvalid == InitPlain /\ [][NextInvalid]_vars

\* ------------------------------------------------------------ properties
\* The positions of invocation i's call log.
Calls(i) == 1..Len(ops[i])

\* Invocation i is creating a child in this step.
Creates(i) ==
    \/ pc[i] = "DeploymentCreate" /\ ~deployment.exists /\ deployment'.exists
    \/ pc[i] = "ServiceCreate" /\ ~service.exists /\ service'.exists

\* C1 (finalizer ordering): for a WebApp that starts without the engine's
\* finalizer token, no invocation creates a child before a write that adds
\* the token has landed in the store.
C1_FinalizerBeforeChildren ==
    [][\A i \in Workers : Creates(i) => finalizerLanded]_vars

\* Both children were created by the engine, after the token landed.
C1_Witness ==
    /\ finalizerLanded
    /\ deployment.exists /\ deployment.owner = WebAppName
    /\ service.exists /\ service.owner = WebAppName

\* Invocation i's cleanup step has run and returned success.
CleanedUp(i) ==
    \E k \in Calls(i) : ops[i][k].verb = "cleanup" /\ ops[i][k].err = Nil

\* C2 (deletion safety): the engine's token leaves the stored WebApp only in
\* the write of an invocation that saw the deletion mark and whose cleanup
\* step had returned success; an invocation whose cleanup step failed
\* makes no write and returns the error.
C2_DeletionSafety ==
    /\ [][(ContainsFinalizer(webapp, webappFinalizer)
             /\ ~ContainsFinalizer(webapp', webappFinalizer))
          => \E i \in Workers :
                /\ pc[i] = "RemoveFinalizer"
                /\ webapp.deleting /\ obj[i].deleting
                /\ CleanedUp(i)]_vars
    /\ [](\A i \in Workers : \A k \in Calls(i) :
            (ops[i][k].verb = "cleanup" /\ ops[i][k].err # Nil)
            => /\ k = Len(ops[i])
               /\ pc[i] = "done"
               /\ result[i].err # Nil)

\* The engine's write removed the last token and the store purged the WebApp.
C2_Witness ==
    /\ ~webapp.exists
    /\ \E i \in Workers :
        /\ pc[i] = "done"
        /\ CleanedUp(i)
        /\ ops[i][Len(ops[i])].verb = "update"
        /\ ops[i][Len(ops[i])].err = Nil

\* Two invocations have run one after the other, undisturbed.
RanTwice == idem.phase = "checked"

\* Both of them ran the whole pass and returned the periodic re-delivery.
RanTwiceComplete ==
    RanTwice /\ idem.first.res = Periodic /\ idem.res2 = Periodic

\* The second invocation left the children as the first had left them.
SameChildren ==
    deployment = idem.first.deployment /\ service = idem.first.service

\* A status without the transition time of its Progressing condition.
ApartFromProgressingTime(st) ==
    [st EXCEPT !.conditions =
        [k \in 1..Len(st.conditions) |->
            IF st.conditions[k].type = TypeProgressing
            THEN [st.conditions[k] EXCEPT !.lastTransitionTime = 0]
            ELSE st.conditions[k]]]

Calling(i) == ops'[i] # ops[i]

\* What of a Deployment lies outside the engine's authoritative subset:
\* everything but the replica count and the image and port of the engine's
\* container (the one named ContainerName).
OutsideDeploymentSubset(d) ==
    [owner |-> d.owner, selector |-> d.selector, paused |-> d.paused,
     availableReplicas |-> d.availableReplicas,
     containers |->
        [k \in 1..Len(d.containers) |->
            IF d.containers[k].name = ContainerName
            THEN [d.containers[k] EXCEPT !.image = "", !.port = 0]
            ELSE d.containers[k]]]

\* What of a Service lies outside the engine's authoritative subset:
\* everything but ports and selector.
OutsideServiceSubset(s) ==
    [owner |-> s.owner, type |-> s.type, annotated |-> s.annotated]

\* C4 (no field clobbering): a store call of reconcileDeployment or
\* reconcileService on an existing child leaves every field outside the
\* engine's authoritative subset as it was in the store, also when another
\* writer's change landed between the synchronizer's read and its write.
C4_NoFieldClobbering ==
    [][\A i \in Workers : Calling(i) =>
         /\ (deployment.exists /\ deployment'.exists)
              => OutsideDeploymentSubset(deployment') = OutsideDeploymentSubset(deployment)
         /\ (service.exists /\ service'.exists)
              => OutsideServiceSubset(service') = OutsideServiceSubset(service)]_vars

\* The observedGeneration stored for a Condition kind; 0 while there is none.
ObservedGeneration(o, t) ==
    LET k == FindStatusCondition(o.status.conditions, t) IN
    IF k = 0 THEN 0 ELSE o.status.conditions[k].observedGeneration

ConditionTypes == {TypeAvailable, TypeProgressing, TypeDegraded}

\* C5 (status monotonic-generation): for each Condition kind, the
\* observedGeneration stored on the WebApp never decreases from one store
\* state to the next, whatever way invocations and desired-state edits
\* interleave.
C5_MonotonicGeneration ==
    [][(webapp.exists /\ webapp'.exists) =>
         \A t \in ConditionTypes :
            ObservedGeneration(webapp', t) >= ObservedGeneration(webapp, t)]_vars

\* After an edit one kind is already stamped with the new generation while
\* another still carries the old one.
C5_Witness ==
    /\ webapp.exists
    /\ \E t \in ConditionTypes : ObservedGeneration(webapp, t) = MaxGeneration
    /\ \E t \in ConditionTypes :
          /\ ObservedGeneration(webapp, t) > 0
          /\ ObservedGeneration(webapp, t) < MaxGeneration

\* Invocation i has returned, and its fetch of the WebApp had failed with e.
FetchFailed(i, e) ==
    pc[i] = "done" /\ ops[i][1].verb = "get" /\ ops[i][1].err = e

\* C6: an invocation whose fetch finds no WebApp returns success with no
\* re-delivery and makes no other store call; one whose fetch fails in any
\* other way returns that error and makes no other store call; the fetch
\* itself changes nothing in the store.
C6_AbsentOrUnreadable ==
    /\ [](\A i \in Workers :
            /\ FetchFailed(i, ErrNotFound)
                 => Len(ops[i]) = 1 /\ result[i] = Success
            /\ (\E e \in {ErrUnavailable, ErrConflict, ErrAlreadyExists} :
                    FetchFailed(i, e))
                 => Len(ops[i]) = 1 /\ result[i] = Failure(ops[i][1].err))
    /\ [][\A i \in Workers :
            (pc[i] = "idle" /\ Calling(i)) => UNCHANGED storeVars]_vars

\* The WebApp is purged and an invocation for its key has returned.
C6_Witness ==
    /\ ~webapp.exists
    /\ FetchFailed(Primary, ErrNotFound)
    /\ result[Primary] = Success

\* Invocation i saw the deletion mark on the WebApp it fetched.
SawDeletion(i) == pc[i] # "idle" /\ obj[i].deleting

\* Invocation i has made or is about to make its cleanup call: the WebApp it
\* fetched carried the engine's token.
SawToken(i) ==
    pc[i] = "Cleanup" \/ \E k \in Calls(i) : ops[i][k].verb = "cleanup"

\* C7: an invocation that sees the deletion mark makes no call on a
\* Deployment or a Service and no status write; if the WebApp it fetched
\* lacks the engine's token it makes no write at all; and when it returns
\* without error it asks for no re-delivery, immediate or delayed.
C7_DeletingTouchesNothing ==
    \A i \in Workers : SawDeletion(i) =>
        /\ \A k \in Calls(i) :
              ops[i][k].kind = "WebApp" /\ ops[i][k].verb # "status"
        /\ ~SawToken(i) =>
              \A k \in Calls(i) : ops[i][k].verb = "get"
        /\ (pc[i] = "done" /\ result[i].err = Nil) => result[i] = Success

\* A deleting WebApp that another controller still protects: the engine has
\* released its token in an earlier invocation, and this one found nothing
\* to do.
C7_Witness ==
    /\ webapp.exists /\ webapp.deleting
    /\ ~ContainsFinalizer(webapp, webappFinalizer)
    /\ finalizerLanded
    /\ SawDeletion(Primary) /\ pc[Primary] = "done"
    /\ Len(ops[Primary]) = 1

\* Invocation i took the branch that registers the finalizer token: the
\* WebApp it fetched was not being deleted and lacked the token.
Registering(i) ==
    pc[i] = "AddFinalizer" \/ \E k \in Calls(i) : ops[i][k].at = "AddFinalizer"

\* The calls of invocation i, which has returned, were the fetch and one update.
OneUpdateOnly(i) ==
    /\ Len(ops[i]) = 2
    /\ ops[i][1].verb = "get" /\ ops[i][1].kind = "WebApp"
    /\ ops[i][2].verb = "update" /\ ops[i][2].kind = "WebApp"

\* An invocation past its fetch is on the registering branch exactly when
\* the WebApp it fetched was not being deleted and lacked the token.
RegistersWhenUnprotected ==
    \A i \in Workers :
        (pc[i] \notin {"idle", "done"} /\ ~Registering(i) /\ ~obj[i].deleting)
            => ContainsFinalizer(obj[i], webappFinalizer)

\* C8 as stated: an invocation that sees a WebApp not being deleted and
\* without the engine's token writes exactly one update, makes no status
\* write and no call on a child, and returns success with immediate
\* re-delivery.
C8_AsStated ==
    \A i \in Workers : (Registering(i) /\ pc[i] = "done") =>
        /\ OneUpdateOnly(i)
        /\ ops[i][2].err = Nil
        /\ result[i] = Requeue

\* C8 (as the code has it): an invocation that sees a WebApp not being
\* deleted and without the engine's token attempts exactly one update, which
\* adds the token and changes nothing else, and makes no status write and no
\* call on a child; it returns success with immediate re-delivery when the
\* update lands, and the update's error with no re-delivery when the store
\* rejects it.
C8_RegisterAndRequeue ==
    /\ [](RegistersWhenUnprotected
          /\ \A i \in Workers : (Registering(i) /\ pc[i] = "done") =>
                /\ OneUpdateOnly(i)
                /\ ops[i][2].err = Nil => result[i] = Requeue
                /\ ops[i][2].err # Nil =>
                      result[i] = Failure("adding finalizer: " \o ops[i][2].err))
    /\ [][\A i \in Workers : (pc[i] = "AddFinalizer" /\ Calling(i)) =>
            /\ UNCHANGED <<deployment, service>>
            /\ \/ UNCHANGED webapp
               \/ webapp' = [webapp EXCEPT
                                !.finalizers = Append(@, webappFinalizer)]]_vars

\* The update landed: the token is in the store and the invocation has
\* returned asking for immediate re-delivery, with no child created.
C8_Witness ==
    /\ Registering(Primary) /\ pc[Primary] = "done"
    /\ result[Primary] = Requeue
    /\ ContainsFinalizer(webapp, webappFinalizer)
    /\ ~deployment.exists /\ ~service.exists

\* A call of reconcileDeployment or reconcileService that made it fail.
SyncFailure(op) ==
    /\ op.at \in {"DeploymentGet", "DeploymentCreate", "DeploymentUpdate",
                  "ServiceGet", "ServiceCreate", "ServiceUpdate"}
    /\ IF op.verb = "get" THEN op.err \notin {Nil, ErrNotFound} ELSE op.err # Nil

KindWord(kind) == IF kind = "Deployment" THEN "deployment" ELSE "service"

\* The error the failed synchronizer returned.
SyncError(op) ==
    IF op.verb = "get" THEN "getting " \o KindWord(op.kind) \o ": " \o op.err
    ELSE op.err

\* The stored Condition of a kind; NoCondition while there is none.
StoredCondition(o, t) ==
    LET k == FindStatusCondition(o.status.conditions, t) IN
    IF k = 0 THEN NoCondition ELSE o.status.conditions[k]

\* C9: when reconcileDeployment or reconcileService fails, the next and last
\* call of the invocation is the attempt to set Degraded to True with reason
\* DeploymentFailed or ServiceFailed and the synchronizer's error as message;
\* the invocation returns that error; and it writes neither
\* availableReplicas nor the Available Condition.
C9_DegradedOnSyncFailure ==
    /\ [](\A i \in Workers : \A k \in Calls(i) : SyncFailure(ops[i][k]) =>
            /\ \A j \in Calls(i) : ops[i][j].cond.type # TypeAvailable
            /\ \/ k = Len(ops[i]) /\ pc[i] = ops[i][k].kind \o "Failed"
               \/ /\ k + 1 = Len(ops[i])
                  /\ pc[i] = "done"
                  /\ ops[i][k + 1].verb = "status"
                  /\ ops[i][k + 1].cond =
                        Condition(TypeDegraded, ConditionTrue,
                                  ops[i][k].kind \o "Failed", SyncError(ops[i][k]),
                                  ops[i][k + 1].cond.observedGeneration)
                  /\ result[i] =
                        Failure("reconciling " \o KindWord(ops[i][k].kind) \o ": "
                                  \o SyncError(ops[i][k])))
    /\ [][\A i \in Workers :
            (pc[i] \in {"DeploymentFailed", "ServiceFailed"} /\ Calling(i)) =>
                /\ UNCHANGED <<deployment, service>>
                /\ webapp'.status.availableReplicas = webapp.status.availableReplicas
                /\ StoredCondition(webapp', TypeAvailable)
                     = StoredCondition(webapp, TypeAvailable)]_vars

\* reconcileService failed, the Degraded write landed and the invocation has
\* returned, the WebApp reporting replicas from an earlier pass.
C9_Witness ==
    /\ pc[Primary] = "done"
    /\ \E k \in Calls(Primary) :
          SyncFailure(ops[Primary][k]) /\ ops[Primary][k].kind = "Service"
    /\ ops[Primary][Len(ops[Primary])].err = Nil
    /\ StoredCondition(webapp, TypeDegraded).reason = "ServiceFailed"
    /\ StoredCondition(webapp, TypeAvailable).type = TypeAvailable

\* A call that creates or updates a child.
ChildMutation(op) ==
    op.kind \in {"Deployment", "Service"} /\ op.verb \in {"create", "update"}

\* A status write that landed.
StatusWrite(op) == op.verb = "status" /\ op.err = Nil

ReturnedPeriodic(i) ==
    pc[i] = "done" /\ result[i].err = Nil /\ result[i].requeueAfter > 0

\* A Condition without its transition time.
Timeless(cond) == [cond EXCEPT !.lastTransitionTime = 0]

\* C11: an invocation that returns success with a periodic re-delivery
\* returns exactly one minute (60 s) and nothing else, and when it returns
\* the store holds Progressing False with reason ReconcileComplete, Degraded
\* False, and the Available Condition that this invocation computed from the
\* Deployment it read.
C11_PeriodicReturn ==
    \A i \in Workers : ReturnedPeriodic(i) =>
        /\ result[i] = [err |-> Nil, requeue |-> FALSE, requeueAfter |-> 60,
                        done |-> TRUE]
        /\ StoredCondition(webapp, TypeProgressing).status = ConditionFalse
        /\ StoredCondition(webapp, TypeProgressing).reason = "ReconcileComplete"
        /\ StoredCondition(webapp, TypeDegraded).status = ConditionFalse
        /\ \E k \in Calls(i) :
              /\ ops[i][k].at = "SetAvailable" /\ ops[i][k].err = Nil
              /\ ops[i][k].cond.type = TypeAvailable
              /\ Timeless(StoredCondition(webapp, TypeAvailable)) = ops[i][k].cond
              /\ ops[i][k].cond.status =
                    IF webapp.status.availableReplicas > 0
                    THEN ConditionTrue ELSE ConditionFalse

\* A pass over a Deployment with available replicas has returned the
\* periodic re-delivery, some time after the WebApp was created.
C11_Witness ==
    /\ ReturnedPeriodic(Primary)
    /\ now > 0
    /\ StoredCondition(webapp, TypeAvailable).status = ConditionTrue
    /\ StoredCondition(webapp, TypeAvailable).lastTransitionTime > 0

\* Invocation i returns in this step.
Returns(i) == pc'[i] = "done" /\ pc[i] # "done"

\* C12: a write of the WebApp's own record (finalizer update or status
\* update) rejected for a concurrency conflict is the invocation's last
\* call, and the invocation returns an error with no re-delivery interval
\* and no immediate re-delivery in its result; the rejected write leaves the
\* stored WebApp, Conditions included, as it was; and the invocation after
\* one that met a conflict, when the store serves all its calls, returns
\* without error.
C12_ConflictIsRetryable ==
    /\ [](\A i \in Workers : \A k \in Calls(i) :
            (RejectedWrite(ops[i][k]) /\ pc[i] = "done") =>
                /\ k = Len(ops[i])
                /\ result[i].err # Nil
                /\ ~result[i].requeue /\ result[i].requeueAfter = 0)
    /\ [][\A i \in Workers :
            /\ (Len(ops'[i]) > Len(ops[i]) /\ RejectedWrite(ops'[i][Len(ops'[i])]))
                 => UNCHANGED storeVars
            /\ (Returns(i) /\ rejected = "rejected"
                  /\ \A k \in 1..Len(ops'[i]) : Served(ops'[i][k]))
                 => result'[i].err = Nil]_vars

\* After an invocation whose status write was rejected, the next one has
\* run the whole pass at the new generation and returned without error.
C12_Witness ==
    /\ rejected = "recovered"
    /\ ReturnedPeriodic(Primary)
    /\ webapp.generation = MaxGeneration
    /\ StoredCondition(webapp, TypeDegraded).observedGeneration = MaxGeneration

\* Invocation i's first Condition write, the Progressing write, has landed.
MarkedProgressing(i) ==
    \E k \in Calls(i) : ops[i][k].at = "MarkProgressing" /\ ops[i][k].err = Nil

\* C13 (no failure is silent): an invocation that returns an error after
\* its Progressing write landed has, as its last call before returning,
\* written a Condition that reflects the error (Degraded True), unless the
\* store refused that very Condition write.
C13_NoSilentFailure ==
    \A i \in Workers :
        (pc[i] = "done" /\ result[i].err # Nil /\ MarkedProgressing(i)) =>
            LET last == ops[i][Len(ops[i])] IN
            /\ last.verb = "status"
            /\ last.err = Nil =>
                  last.cond.type = TypeDegraded /\ last.cond.status = ConditionTrue

\* A call on a child that the store rejected as invalid.
RejectedAsInvalid(op) ==
    op.kind \in {"Deployment", "Service"} /\ op.err = ErrInvalid

\* C14 (errors are binary): an invocation that fails on a desired state the
\* store rejects as invalid, which retrying cannot change, attempts the
\* Degraded Condition and is re-delivered no sooner than the one-minute
\* floor (not with backoff, not at once), whereas an invocation that fails
\* on a transient store failure is re-delivered with exponential backoff.
C14_FatalNotRetriedFaster ==
    \A i \in Workers : pc[i] = "done" =>
        /\ (\E k \in Calls(i) : RejectedAsInvalid(ops[i][k])) =>
              /\ ops[i][Len(ops[i])].cond.type = TypeDegraded
              /\ ops[i][Len(ops[i])].cond.status = ConditionTrue
              /\ Redelivery(result[i]) \in {"after", "none"}
              /\ Redelivery(result[i]) = "after" => result[i].requeueAfter >= 60
        /\ (\E k \in Calls(i) : ops[i][k].err = ErrUnavailable) =>
              Redelivery(result[i]) = "backoff"

\* The landed creations of a kind of child in invocation i's call log.
Creations(i, kind) ==
    {k \in Calls(i) : /\ ops[i][k].verb = "create" /\ ops[i][k].kind = kind
                      /\ ops[i][k].err = Nil}

\* Invocation i found no child of the kind when it looked for it.
FoundNone(i, kind) ==
    \E k \in Calls(i) :
        /\ ops[i][k].at \in {"DeploymentGet", "ServiceGet"}
        /\ ops[i][k].kind = kind /\ ops[i][k].err = ErrNotFound

\* C15 (scenario A): for a WebApp asking for image app:1.0, 2 replicas and
\* port 8080, with the finalizer registered and no children, one pass
\* creates exactly one Deployment, owned by the WebApp, with 2 replicas and
\* one container with image app:1.0 and port 8080, and exactly one Service,
\* owned by the WebApp, with port and target port 8080; and the Available
\* Condition a pass sets is True exactly when the available replicas it
\* read from the Deployment are at least 1.
C15_ScenarioA ==
    /\ [](\A i \in Workers :
            (ReturnedPeriodic(i) /\ FoundNone(i, "Deployment") /\ FoundNone(i, "Service"))
                => /\ Cardinality(Creations(i, "Deployment")) = 1
                   /\ Cardinality(Creations(i, "Service")) = 1)
    /\ [][\A i \in Workers :
            /\ (Creates(i) /\ obj[i].spec = SpecA /\ pc[i] = "DeploymentCreate") =>
                  /\ deployment'.owner = WebAppName
                  /\ deployment'.replicas = 2
                  /\ deployment'.containers =
                        << [name |-> ContainerName, image |-> "app:1.0", port |-> 8080] >>
                  /\ UNCHANGED service
            /\ (Creates(i) /\ obj[i].spec = SpecA /\ pc[i] = "ServiceCreate") =>
                  /\ service'.owner = WebAppName
                  /\ service'.port = 8080 /\ service'.targetPort = 8080
                  /\ UNCHANGED deployment
            /\ (pc[i] = "StatusGet" /\ pc'[i] = "SetAvailable") =>
                  obj'[i].status.availableReplicas = deployment.availableReplicas
            /\ (pc[i] = "SetAvailable" /\ Len(ops'[i]) > Len(ops[i])) =>
                  LET set == ops'[i][Len(ops'[i])].cond IN
                  /\ set.type = TypeAvailable
                  /\ set.status = ConditionTrue
                        <=> obj[i].status.availableReplicas >= 1]_vars

\* The pass that created both children has returned, and the store holds
\* them as asked for, with the Deployment already reporting a replica and
\* Available set to True by this pass.
C15_Witness ==
    /\ ReturnedPeriodic(Primary)
    /\ Cardinality(Creations(Primary, "Deployment")) = 1
    /\ Cardinality(Creations(Primary, "Service")) = 1
    /\ deployment.replicas = 2 /\ service.port = 8080
    /\ StoredCondition(webapp, TypeAvailable).status = ConditionTrue

\* The children are in sync with the desired state sp: the Deployment has
\* its replica count and runs the engine's container with its image and
\* port, the Service exposes its port.
InSync(sp) ==
    /\ deployment.exists /\ service.exists
    /\ deployment.replicas = IF sp.replicas = <<>> THEN 1 ELSE sp.replicas[1]
    /\ \E k \in 1..Len(deployment.containers) :
          deployment.containers[k] =
              [name |-> ContainerName, image |-> sp.image, port |-> sp.port]
    /\ service.port = sp.port /\ service.targetPort = sp.port
    /\ service.selector = labelsForWebApp(WebAppName)

\* C16 (scenario B): with the children in sync with 2 replicas, the pass
\* that follows the edit of the desired replicas from 2 to 3 changes nothing
\* but the replica count of the Deployment: every store call of the pass
\* leaves every other Deployment field and every Service field as it was.
C16_ScenarioB ==
    [][\A i \in Workers :
         (Calling(i) /\ obj[i].spec = SpecB /\ InSync(SpecA)) =>
            /\ \/ UNCHANGED deployment
               \/ deployment' = [deployment EXCEPT !.replicas = 3]
            /\ UNCHANGED service]_vars

\* C17 (scenario C, liveness): once deletion is requested for a WebApp that
\* carries only the engine's token, the token is eventually removed and the
\* record purged, under fair re-delivery and a store that does not fail for
\* ever; the purge is final, and every Reconcile that then finds the key
\* gone returns success having done nothing.
C17_ScenarioC ==
    /\ (webapp.exists /\ webapp.deleting) ~> ~webapp.exists
    /\ [][(webapp.exists /\ webapp.deleting /\ ~webapp'.exists) =>
            /\ webapp.finalizers = <<webappFinalizer>>
            /\ pc[Primary] = "RemoveFinalizer"]_vars
    /\ [][~webapp.exists => ~webapp'.exists]_vars
    /\ [](\A i \in Workers : FetchFailed(i, ErrNotFound) =>
            Len(ops[i]) = 1 /\ result[i] = Success)

\* The WebApp had its token, was deleted and purged, and a later Reconcile
\* of its key has returned.
C17_Witness ==
    /\ finalizerLanded
    /\ ~webapp.exists
    /\ FetchFailed(Primary, ErrNotFound)
    /\ deployment.exists

\* The Available Condition writes of invocation i's log.
AvailableWrites(i) ==
    {k \in Calls(i) : ops[i][k].verb = "status" /\ ops[i][k].cond.type = TypeAvailable}

\* Invocation i takes the step that reads the Deployment for status, served.
ObservesDeployment(i) ==
    /\ pc[i] = "StatusGet"
    /\ Len(ops'[i]) > Len(ops[i])
    /\ ops'[i][Len(ops'[i])].err = Nil

\* A message that carries the count n.
CarriesCount(m, n) == m = ToString(n) \o " replica(s) available"

\* Invocation i has written Progressing=False with reason ReconcileComplete.
WroteReconcileComplete(i) ==
    \E k \in Calls(i) :
        /\ ops[i][k].verb = "status" /\ ops[i][k].err = Nil
        /\ ops[i][k].cond.type = TypeProgressing
        /\ ops[i][k].cond.status = ConditionFalse
        /\ ops[i][k].cond.reason = "ReconcileComplete"

\* C18 as stated: Available=True when at least one replica was observed
\* available, otherwise Available=False with reason "Unavailable" and a
\* message carrying the observed count; Progressing=False with reason
\* ReconcileComplete on a pass that finished cleanly.
C18_AsStated ==
    /\ \A i \in Workers : \A k \in AvailableWrites(i) :
         LET n == obj[i].status.availableReplicas
             c == ops[i][k].cond
         IN IF n >= 1
            THEN c.status = ConditionTrue
            ELSE /\ c.status = ConditionFalse
                 /\ c.reason = "Unavailable"
                 /\ CarriesCount(c.message, n)
    /\ \A i \in Workers : ReturnedPeriodic(i) => WroteReconcileComplete(i)

\* C18: the count the status pass works with is the Deployment's available
\* replicas as read; with at least one it writes Available=True, reason
\* DeploymentAvailable and a message carrying the count, otherwise
\* Available=False, reason DeploymentUnavailable and the fixed message "no
\* replicas are available yet"; a pass that finished cleanly has written
\* Progressing=False with reason ReconcileComplete.
C18_StatusDecisionTable ==
    /\ [][\A i \in Workers : ObservesDeployment(i) =>
            obj'[i].status.availableReplicas = deployment.availableReplicas]_vars
    /\ [](\A i \in Workers : \A k \in AvailableWrites(i) :
            LET n == obj[i].status.availableReplicas
                c == ops[i][k].cond
            IN IF n >= 1
               THEN /\ c.status = ConditionTrue
                    /\ c.reason = "DeploymentAvailable"
                    /\ CarriesCount(c.message, n)
               ELSE /\ c.status = ConditionFalse
                    /\ c.reason = "DeploymentUnavailable"
                    /\ c.message = "no replicas are available yet")
    /\ [](\A i \in Workers : ReturnedPeriodic(i) => WroteReconcileComplete(i))

\* A pass that observed no available replica has finished cleanly, and the
\* Deployment has one available by now.
C18_Witness ==
    /\ ReturnedPeriodic(Primary)
    /\ AvailableWrites(Primary) # {}
    /\ obj[Primary].status.availableReplicas = 0
    /\ StoredCondition(webapp, TypeAvailable).status = ConditionFalse
    /\ deployment.availableReplicas >= 1

\* A pass that observed an available replica has finished cleanly.
C18_WitnessAvailable ==
    /\ ReturnedPeriodic(Primary)
    /\ AvailableWrites(Primary) # {}
    /\ obj[Primary].status.availableReplicas >= 1
    /\ StoredCondition(webapp, TypeAvailable).status = ConditionTrue

\* Invocation i makes a Condition write, and it lands in the store.
ConditionLands(i) ==
    /\ Len(ops'[i]) > Len(ops[i])
    /\ ops'[i][Len(ops'[i])].verb = "status"
    /\ ops'[i][Len(ops'[i])].err = Nil

\* C19: a Condition write that lands carries, in the call and in the store
\* afterwards, observedGeneration equal to the generation the stored WebApp
\* has at that moment; and in every state each stored Condition's
\* observedGeneration is at most the WebApp's generation.
C19_StampedWithStoredGeneration ==
    /\ [][\A i \in Workers : ConditionLands(i) =>
            LET c == ops'[i][Len(ops'[i])].cond
            IN /\ c.observedGeneration = webapp.generation
               /\ webapp'.generation = webapp.generation
               /\ ObservedGeneration(webapp', c.type) = webapp.generation]_vars
    /\ [](webapp.exists =>
            \A k \in 1..Len(webapp.status.conditions) :
                webapp.status.conditions[k].observedGeneration <= webapp.generation)

\* After a desired-state edit, a pass has just landed a Condition stamped
\* with the new generation while another kind still carries the old one.
C19_Witness ==
    /\ webapp.exists /\ webapp.generation = MaxGeneration
    /\ Len(ops[Primary]) > 0
    /\ LET last == ops[Primary][Len(ops[Primary])]
       IN /\ last.verb = "status" /\ last.err = Nil
          /\ last.cond.observedGeneration = MaxGeneration
          /\ ObservedGeneration(webapp, last.cond.type) = MaxGeneration
    /\ \E t \in ConditionTypes :
          ObservedGeneration(webapp, t) \in 1..(MaxGeneration - 1)

\* C20: the WebApp's Conditions hold at most one entry per kind; a
\* setCondition call that lands with the state and reason of the stored
\* Condition of its kind leaves that Condition's transition timestamp as it
\* was, and one that lands with another state stamps it with the time of
\* the call.
C20_OnePerKindAndTimestamps ==
    /\ [](webapp.exists =>
            \A j, k \in 1..Len(webapp.status.conditions) :
                webapp.status.conditions[j].type = webapp.status.conditions[k].type
                    => j = k)
    /\ [][\A i \in Workers : ConditionLands(i) =>
            LET c == ops'[i][Len(ops'[i])].cond
                old == StoredCondition(webapp, c.type)
                new == StoredCondition(webapp', c.type)
            IN /\ new.status = c.status /\ new.reason = c.reason
               /\ (old.type = c.type /\ old.status = c.status /\ old.reason = c.reason)
                    => new.lastTransitionTime = old.lastTransitionTime
               /\ (old.type = c.type /\ old.status # c.status)
                    => new.lastTransitionTime = now]_vars

\* Two whole passes in sequence: Degraded, written twice with the same state
\* and reason, keeps the time of its first write, and Progressing, which
\* changed state, carries a later one.
C20_Witness ==
    /\ RanTwiceComplete
    /\ Len(webapp.status.conditions) = 3
    /\ StoredCondition(webapp, TypeDegraded).lastTransitionTime = 0
    /\ StoredCondition(webapp, TypeProgressing).lastTransitionTime > 0

\* C21: when a pass has returned success with the periodic re-delivery, the
\* Deployment and the Service of the WebApp's name each carry an owner
\* reference to the WebApp, whether the pass created them or found them.
C21_ChildrenOwned ==
    \A i \in Workers : ReturnedPeriodic(i) =>
        /\ deployment.exists /\ deployment.owner = WebAppName
        /\ service.exists /\ service.owner = WebAppName

\* The verbs of the store client that Reconcile uses, and the in-memory
\* cleanup step.
EngineVerbs == {"get", "create", "update", "status", "cleanup"}

\* Some invocation takes a step.
EngineStep == \E i \in Workers : ops'[i] # ops[i] \/ pc'[i] # pc[i]

FinalizerWriteLands(i) ==
    /\ Len(ops'[i]) > Len(ops[i])
    /\ ops'[i][Len(ops'[i])].verb = "update"
    /\ ops'[i][Len(ops'[i])].kind = "WebApp"
    /\ ops'[i][Len(ops'[i])].err = Nil

\* C23 (write-path separation): an engine step changes the WebApp's status
\* only by a status update that lands; that update stores the Condition it
\* was called with and leaves desired state, generation, deletion mark and
\* finalizers as they were; a finalizer write that lands changes the
\* finalizers and leaves desired state, generation and, while the record
\* stays, status as they were.
C23_WritePathSeparation ==
    /\ [][(EngineStep /\ webapp'.exists /\ webapp'.status # webapp.status) =>
            \E i \in Workers : ConditionLands(i)]_vars
    /\ [][\A i \in Workers : ConditionLands(i) =>
            LET c == ops'[i][Len(ops'[i])].cond
            IN /\ Timeless(StoredCondition(webapp', c.type)) = c
               /\ webapp'.status.availableReplicas = obj[i].status.availableReplicas
               /\ webapp'.spec = webapp.spec
               /\ webapp'.generation = webapp.generation
               /\ webapp'.deleting = webapp.deleting
               /\ webapp'.finalizers = webapp.finalizers]_vars
    /\ [][\A i \in Workers : FinalizerWriteLands(i) =>
            /\ webapp'.finalizers # webapp.finalizers
            /\ webapp'.exists =>
                 /\ webapp'.spec = webapp.spec
                 /\ webapp'.generation = webapp.generation
                 /\ webapp'.status = webapp.status]_vars

\* The engine's token has just been removed from a deleting WebApp that
\* another controller still protects: the record stays, with the status the
\* passes before had written and the desired state of the latest edit.
C23_Witness ==
    /\ webapp.exists /\ webapp.deleting
    /\ webapp.finalizers = <<otherFinalizer>>
    /\ finalizerLanded
    /\ webapp.generation = MaxGeneration
    /\ Len(webapp.status.conditions) = 3
    /\ Len(ops[Primary]) > 0
    /\ ops[Primary][Len(ops[Primary])].verb = "update"
    /\ ops[Primary][Len(ops[Primary])].err = Nil

\* The calls of verb on the child of kind in invocation i's log.
ChildCalls(i, kind, verbs) ==
    {k \in Calls(i) : ops[i][k].kind = kind /\ ops[i][k].verb \in verbs}

\* A store call that failed: any error, except nothing found by the fetch of
\* the WebApp or by a synchronizer's get.
FailedCall(op) ==
    /\ op.err # Nil
    /\ ~(op.verb = "get" /\ op.err = ErrNotFound /\ op.at # "StatusGet")

\* After its first failed call invocation i makes no other call than the
\* attempt to set Degraded to True, and it returns an error.
StopsAtFailure(i) ==
    \A k \in Calls(i) : FailedCall(ops[i][k]) =>
        /\ \A j \in Calls(i) : j > k =>
              /\ j = k + 1
              /\ SyncFailure(ops[i][k])
              /\ ops[i][j].verb = "status"
              /\ ops[i][j].cond.type = TypeDegraded
              /\ ops[i][j].cond.status = ConditionTrue
        /\ pc[i] = "done" => result[i].err # Nil

\* C24 as stated (no internal retry): within one invocation each of get,
\* create and update is attempted at most once per child, and after the
\* first failing store call nothing follows but the Degraded write and the
\* return of the error.
C24_AsStated ==
    \A i \in Workers :
        /\ \A kind \in {"Deployment", "Service"} :
           \A verb \in {"get", "create", "update"} :
              Cardinality(ChildCalls(i, kind, {verb})) <= 1
        /\ StopsAtFailure(i)

\* C24 (as the code has it): within one invocation each child is written at
\* most once (one create or one update), the Service is read at most once,
\* the Deployment at most once by its synchronizer and at most once more,
\* after both children are synchronized, for status; and after the first
\* failing store call nothing follows but the Degraded write and the return
\* of the error.
C24_NoInternalRetry ==
    \A i \in Workers :
        /\ \A kind \in {"Deployment", "Service"} :
              Cardinality(ChildCalls(i, kind, {"create", "update"})) <= 1
        /\ Cardinality(ChildCalls(i, "Service", {"get"})) <= 1
        /\ Cardinality({k \in ChildCalls(i, "Deployment", {"get"}) :
                           ops[i][k].at = "DeploymentGet"}) <= 1
        /\ Cardinality({k \in ChildCalls(i, "Deployment", {"get"}) :
                           ops[i][k].at = "StatusGet"}) <= 1
        /\ \A k \in ChildCalls(i, "Deployment", {"get"}) :
              ops[i][k].at = "StatusGet" =>
                 /\ k = Len(ops[i]) \/ ~ChildMutation(ops[i][k + 1])
                 /\ \A j \in Calls(i) : ChildMutation(ops[i][j]) => j < k
        /\ StopsAtFailure(i)

\* A pass has updated the Deployment, was refused the update of the Service,
\* attempted the Degraded write and returned the error.
C24_Witness ==
    /\ pc[Primary] = "done" /\ result[Primary].err # Nil
    /\ Len(ops[Primary]) > 2
    /\ ChildCalls(Primary, "Deployment", {"update"}) # {}
    /\ LET n == Len(ops[Primary])
       IN /\ ops[Primary][n - 1].kind = "Service"
          /\ ops[Primary][n - 1].verb = "update"
          /\ ops[Primary][n - 1].err # Nil
          /\ ops[Primary][n].verb = "status"

\* The last pass ran from its fetch to its return with no write from outside,
\* none has landed since, and it returned the periodic re-delivery.
CleanPassJustDone ==
    \/ idem.phase = "between" /\ idem.first.res = Periodic
    \/ idem.phase = "checked" /\ idem.res2 = Periodic

\* C25 (drift correction): once a pass that started after the last write
\* from outside has returned successfully, the Deployment's replicas and the
\* image and port of the engine's container, and the Service's port and
\* selector, have the values derived from the desired state; and under fair
\* re-delivery, unless the writes from outside go on for ever, the children
\* are eventually in sync for good.
C25_DriftCorrection ==
    /\ [](CleanPassJustDone => InSync(webapp.spec))
    /\ \/ <>[](InSync(webapp.spec) \/ ~webapp.exists)
       \/ []<><<OutsideChildWrite>>_vars

\* What uninterrupted invocations, every call served and no write from
\* outside, make of the store w, d, s: a deleting WebApp loses the engine's
\* token, a live one gets it, its children created or selectively updated,
\* and the three Conditions of a finished pass.
Uninterrupted(w, d, s) ==
    IF ~w.exists THEN [webapp |-> w, deployment |-> d, service |-> s]
    ELSE IF w.deleting
    THEN [webapp |-> Settle(RemoveFinalizer(w, webappFinalizer)),
          deployment |-> d, service |-> s]
    ELSE LET d2 == IF d.exists THEN MergeDeployment(d, DesiredDeployment(w))
                   ELSE DesiredDeployment(w)
             s2 == IF s.exists THEN MergeService(s, DesiredService(w))
                   ELSE DesiredService(w)
             c1 == SetStatusCondition(w.status.conditions,
                       AvailableCondition(d2.availableReplicas, w.generation), 0)
             c2 == SetStatusCondition(c1,
                       Condition(TypeProgressing, ConditionFalse, "ReconcileComplete",
                                 "reconciliation complete", w.generation), 0)
             c3 == SetStatusCondition(c2,
                       Condition(TypeDegraded, ConditionFalse, "ReconcileComplete",
                                 "no errors", w.generation), 0)
         IN [webapp |-> [AddFinalizer(w, webappFinalizer) EXCEPT
                            !.status = [availableReplicas |-> d2.availableReplicas,
                                        conditions |-> c3]],
             deployment |-> d2, service |-> s2]

\* What the claim compares of a store: the finalizer set, the children, the
\* Conditions by kind without their transition times.
Outcome(st) ==
    [exists |-> st.webapp.exists,
     finalizers |-> st.webapp.finalizers,
     availableReplicas |-> st.webapp.status.availableReplicas,
     conditions |-> [t \in ConditionTypes |-> Timeless(StoredCondition(st.webapp, t))],
     deployment |-> [st.deployment EXCEPT !.resourceVersion = NoVersion],
     service |-> [st.service EXCEPT !.resourceVersion = NoVersion]]

Stored == [webapp |-> webapp, deployment |-> deployment, service |-> service]

\* C26 (crash-resume safety): no store write of an invocation, whichever
\* prefix of its writes the invocation gets to make, changes what the
\* invocations run to completion make of the store; and a pass that has run
\* to its end, or removed the token, has left the store in that state.
C26_CrashResume ==
    /\ [][EngineStep =>
            Outcome(Uninterrupted(webapp', deployment', service'))
              = Outcome(Uninterrupted(webapp, deployment, service))]_vars
    /\ [](\A i \in Workers :
            (ReturnedPeriodic(i)
               \/ (pc[i] = "done" /\ result[i] = Success /\ Len(ops[i]) = 3))
            => Outcome(Stored) = Outcome(Uninterrupted(webapp, deployment, service)))

\* A pass has run to its end that found the Deployment and had to create the
\* Service, and no pass before it had failed (Degraded was never written
\* before Available): an earlier pass was dropped between the two creates.
C26_Witness ==
    /\ ReturnedPeriodic(Primary)
    /\ ChildCalls(Primary, "Deployment", {"update"}) # {}
    /\ ChildCalls(Primary, "Service", {"create"}) # {}
    /\ webapp.status.conditions[2].type = TypeAvailable
    /\ InSync(webapp.spec)

\* What of a WebApp record an invocation does not change in memory before it
\* writes: everything but the engine's own token and availableReplicas.
Snapshot(w) ==
    [exists |-> w.exists, spec |-> w.spec, generation |-> w.generation,
     deleting |-> w.deleting,
     finalizers |-> SelectSeq(w.finalizers, LAMBDA e : e # webappFinalizer),
     token |-> IF w.deleting THEN FALSE ELSE ContainsFinalizer(w, webappFinalizer),
     conditions |-> w.status.conditions]

\* Invocation i makes a write of the WebApp (finalizer or status) in this step.
WritesWebApp(i) ==
    /\ Len(ops'[i]) > Len(ops[i])
    /\ ops'[i][Len(ops'[i])].kind = "WebApp"
    /\ ops'[i][Len(ops'[i])].verb \in {"update", "status"}

\* C27 (no stale writes): a write of the WebApp by an invocation lands only
\* if the stored record is as the invocation last read or wrote it; a write
\* from a copy that a desired-state edit, a deletion request or another
\* write has superseded is rejected with a conflict (or finds the record
\* gone) and leaves the stored record as it is.
C27_NoStaleWrites ==
    [][\A i \in Workers : WritesWebApp(i) =>
         LET op == ops'[i][Len(ops'[i])]
         IN /\ op.err = Nil => Snapshot(obj[i]) = Snapshot(webapp)
            /\ Snapshot(obj[i]) # Snapshot(webapp) =>
                 /\ webapp' = webapp
                 /\ \/ RejectedWrite(op)
                    \/ op.err = ErrNotFound
                    \/ op.err = "updating status condition " \o op.cond.type
                                   \o ": " \o ErrNotFound
                    \/ op.err = ErrUnavailable
                    \/ op.err = "updating status condition " \o op.cond.type
                                   \o ": " \o ErrUnavailable]_vars

\* A status write made from a copy older than a desired-state edit has been
\* rejected, and the store holds the edited desired state.
C27_Witness ==
    /\ pc[Primary] = "done"
    /\ Len(ops[Primary]) > 1
    /\ RejectedWrite(ops[Primary][Len(ops[Primary])])
    /\ ops[Primary][Len(ops[Primary])].verb = "status"
    /\ webapp.exists
    /\ obj[Primary].generation < webapp.generation
    /\ obj[Primary].spec # webapp.spec

\* Worker i takes a step of its invocation.
WorkerStep(i) == ops'[i] # ops[i] \/ pc'[i] # pc[i]

\* What invocations of key k alone make of the store: the records at k once a
\* pass has run to its end.
AloneAt(k) ==
    LET w == SubmittedWebApp(k)
    IN [finalizers |-> <<webappFinalizer>>,
        spec |-> w.spec,
        deployment |-> [Named(DesiredDeployment(w), k) EXCEPT
                           !.resourceVersion = CurrentVersion],
        service |-> [Named(DesiredService(w), k) EXCEPT
                        !.resourceVersion = CurrentVersion],
        conditions |->
           [t \in ConditionTypes |->
              ConditionAt(CASE t = TypeAvailable -> "SetAvailable"
                            [] t = TypeProgressing -> "ClearProgressing"
                            [] OTHER -> "ClearDegraded", w, Nil)]]

\* C28 (cross-key independence): every store call of an invocation for key K
\* is made at K; a step of it leaves the WebApp, Deployment and Service of
\* every other key as they were; and whatever the interleaving with the
\* invocations of another key, a pass for K that runs to its end leaves at K
\* what the invocations of K leave when they run alone.
C28_CrossKeyIndependence ==
    /\ [](\A i \in Workers : \A n \in Calls(i) : ops[i][n].key = Request(i))
    /\ [][\A i \in Workers : WorkerStep(i) =>
            \A k \in Keys \ {Request(i)} :
                /\ webapp'[k] = webapp[k]
                /\ deployment'[k] = deployment[k]
                /\ service'[k] = service[k]]_vars
    /\ [](\A i \in Workers : ReturnedPeriodic(i) =>
            LET k == Request(i)
            IN AloneAt(k) =
                 [finalizers |-> webapp[k].finalizers,
                  spec |-> webapp[k].spec,
                  deployment |-> deployment[k],
                  service |-> service[k],
                  conditions |-> [t \in ConditionTypes |->
                                     Timeless(StoredCondition(webapp[k], t))]])

\* One worker has finished a pass for its key while the other is in the
\* middle of creating the children of its own, of another desired state.
C28_Witness ==
    /\ ReturnedPeriodic(Primary)
    /\ pc["w2"] = "ServiceCreate"
    /\ deployment[KeyA].exists /\ deployment[KeyB].exists
    /\ deployment[KeyA].containers # deployment[KeyB].containers
    /\ ~service[KeyB].exists /\ service[KeyA].exists

\* A write from outside the engine lands.
OutsideWrite ==
    /\ \A i \in Workers : ops'[i] = ops[i] /\ pc'[i] = pc[i]
    /\ storeVars' # storeVars

\* The store fails a call of an invocation.
StoreFails ==
    \E i \in Workers :
        /\ Len(ops'[i]) > Len(ops[i])
        /\ ops'[i][Len(ops'[i])].err = ErrUnavailable

\* The state the claim has the system settle in; Progressing is looked at
\* while no pass is between its first and its last status write.
Converged ==
    /\ ContainsFinalizer(webapp, webappFinalizer)
    /\ InSync(webapp.spec)
    /\ StoredCondition(webapp, TypeDegraded).status = ConditionFalse
    /\ \/ StoredCondition(webapp, TypeProgressing).status = ConditionFalse
       \/ pc[Primary] \notin {"idle", "done"}

\* C29 (convergence): for a WebApp that is not being deleted, under fair
\* re-delivery, once the store has stopped failing and the writes from
\* outside have stopped, the system reaches and stays in a state where the
\* token is present, Deployment and Service exist with replicas, image and
\* port derived from the desired state, Degraded is False and Progressing is
\* False.
C29_Convergence ==
    \/ []<><<OutsideWrite>>_vars
    \/ []<><<StoreFails>>_vars
    \/ <>[](~webapp.exists \/ webapp.deleting \/ Converged)

\* Invocation i has landed a write of Progressing with state st.
WroteProgressing(i, st) ==
    \E k \in Calls(i) :
        /\ ops[i][k].err = Nil
        /\ ops[i][k].cond.type = TypeProgressing
        /\ ops[i][k].cond.status = st

\* Invocation i has returned a failure.
ReturnedFailure(i) == pc[i] = "done" /\ result[i].err # Nil

\* The invocation before the one idem.res2 is the result of was aborted or
\* returned a failure, and left Progressing=True in the store.
LeftStale ==
    /\ idem.phase = "checked"
    /\ idem.first.res = NoResult \/ idem.first.res.err # Nil
    /\ LET k == FindStatusCondition(idem.first.status.conditions, TypeProgressing)
       IN k # 0 /\ idem.first.status.conditions[k].status = ConditionTrue

\* C30 as stated: an invocation that is aborted or returns a failure after
\* writing Progressing=True leaves Progressing=True in the store; no failing
\* invocation ever writes Progressing=False; and the first later invocation
\* that completes successfully sets Progressing=False.
C30_AsStated ==
    \A i \in Workers :
        /\ (pc[i] # "done" \/ ReturnedFailure(i)) /\ WroteProgressing(i, ConditionTrue)
              => StoredCondition(webapp, TypeProgressing).status = ConditionTrue
        /\ ReturnedFailure(i) => ~WroteProgressing(i, ConditionFalse)
        /\ ReturnedPeriodic(i) =>
              /\ WroteProgressing(i, ConditionFalse)
              /\ StoredCondition(webapp, TypeProgressing).status = ConditionFalse

\* C30 (Progressing staleness): an invocation that is aborted or returns a
\* failure after writing Progressing=True and before its Progressing=False
\* write lands leaves Progressing=True in the store; a failing invocation has
\* written Progressing=False only when its last call, the write of
\* Degraded=False, failed; and the first later invocation that runs the pass
\* to its end and returns the periodic re-delivery sets Progressing=False.
C30_ProgressingStaleness ==
    /\ \A i \in Workers :
        /\ ( /\ pc[i] # "done" \/ ReturnedFailure(i)
             /\ WroteProgressing(i, ConditionTrue)
             /\ ~WroteProgressing(i, ConditionFalse) )
              => StoredCondition(webapp, TypeProgressing).status = ConditionTrue
        /\ ReturnedFailure(i) /\ WroteProgressing(i, ConditionFalse) =>
              /\ ops[i][Len(ops[i])].at = "ClearDegraded"
              /\ ops[i][Len(ops[i])].err # Nil
              /\ ops[i][Len(ops[i]) - 1].at = "ClearProgressing"
        /\ ReturnedPeriodic(i) =>
              /\ WroteProgressing(i, ConditionFalse)
              /\ StoredCondition(webapp, TypeProgressing).status = ConditionFalse
    /\ (LeftStale /\ idem.res2.err = Nil /\ idem.res2.requeueAfter > 0) =>
          /\ StoredCondition(webapp, TypeProgressing).status = ConditionFalse
          /\ StoredCondition(webapp, TypeProgressing).reason = "ReconcileComplete"

\* An invocation was aborted after its Progressing=True write, and the
\* invocation after it has run to its end and set Progressing=False.
C30_Witness ==
    /\ LeftStale
    /\ idem.first.res = NoResult
    /\ ReturnedPeriodic(Primary)
    /\ idem.res2 = result[Primary]
    /\ WroteProgressing(Primary, ConditionFalse)
    /\ StoredCondition(webapp, TypeProgressing).status = ConditionFalse

\* The store holds Progressing=False, ReconcileComplete, for the WebApp's
\* current generation.
CompleteForCurrentGeneration ==
    /\ webapp.exists
    /\ StoredCondition(webapp, TypeProgressing).status = ConditionFalse
    /\ StoredCondition(webapp, TypeProgressing).reason = "ReconcileComplete"
    /\ StoredCondition(webapp, TypeProgressing).observedGeneration = webapp.generation

\* C31 (generation-consistent completion): whenever the store holds
\* Progressing=False with reason ReconcileComplete and observedGeneration g
\* for a WebApp whose generation is g, and nobody but the engine has written
\* the children, the Deployment's replicas, image and port and the Service's
\* port are the ones derived from the desired state of generation g, two
\* overlapping invocations for the key included.
C31_GenerationConsistent == CompleteForCurrentGeneration => InSync(webapp.spec)

\* Invocation i's create or update of a Deployment or Service lands in this step.
ChildWriteLands(i) ==
    /\ Len(ops'[i]) > Len(ops[i])
    /\ ops'[i][Len(ops'[i])].kind \in {"Deployment", "Service"}
    /\ ops'[i][Len(ops'[i])].verb \in {"create", "update"}
    /\ ops'[i][Len(ops'[i])].err = Nil

\* Invocation i fetches the WebApp in this step and finds it.
FetchesWebApp(i) ==
    /\ pc[i] = "idle"
    /\ Len(ops'[i]) = 1
    /\ ops'[i][1].err = Nil

StoredChild(at) ==
    IF at \in {"DeploymentCreate", "DeploymentUpdate"} THEN deployment ELSE service

\* Invocation i is about to write a child that another writer has created or
\* modified since the synchronizer read it.
Overtaken(i) ==
    \/ /\ pc[i] \in {"DeploymentCreate", "ServiceCreate"}
       /\ StoredChild(pc[i]).exists
    \/ /\ pc[i] \in {"DeploymentUpdate", "ServiceUpdate"}
       /\ StoredChild(pc[i]).exists
       /\ existing[i].resourceVersion # StoredChild(pc[i]).resourceVersion

\* A child write of invocation i was rejected because of another writer.
RejectedChildWrite(i, k) ==
    /\ ops[i][k].kind \in {"Deployment", "Service"}
    /\ ops[i][k].verb \in {"create", "update"}
    /\ ops[i][k].err \in {ErrAlreadyExists, ErrConflict}

\* C33 (lost-update freedom on children): when another writer created or
\* modified the Deployment or Service between the synchronizer's read and its
\* write, the create is rejected as already existing and the update as a
\* conflict, the stored child stays as the other writer left it, and the
\* invocation returns the rejection as its error.
C33_NoLostUpdate ==
    /\ [][\A i \in Workers :
            (Overtaken(i) /\ Len(ops'[i]) > Len(ops[i])) =>
                /\ ops'[i][Len(ops'[i])].err =
                      IF pc[i] \in {"DeploymentCreate", "ServiceCreate"}
                      THEN ErrAlreadyExists ELSE ErrConflict
                /\ deployment' = deployment /\ service' = service]_vars
    /\ [](\A i \in Workers : \A k \in Calls(i) :
            (RejectedChildWrite(i, k) /\ pc[i] = "done") =>
                result[i].err = "reconciling " \o
                    (IF ops[i][k].kind = "Deployment" THEN "deployment" ELSE "service")
                    \o ": " \o ops[i][k].err)

\* A pass has returned the conflict its update of the Deployment met, and the
\* Deployment is paused, as the other writer left it.
C33_Witness ==
    /\ pc[Primary] = "done"
    /\ \E k \in Calls(Primary) :
          /\ ops[Primary][k].at = "DeploymentUpdate"
          /\ ops[Primary][k].err = ErrConflict
    /\ result[Primary].err = "reconciling deployment: " \o ErrConflict
    /\ deployment.paused

\* The finalizer tokens of o that are not the engine's, in order.
OtherFinalizers(o) == SelectSeq(o.finalizers, LAMBDA e : e # webappFinalizer)

\* How many times the engine's token is in o's finalizers.
OwnTokens(o) == Cardinality({k \in 1..Len(o.finalizers) : o.finalizers[k] = webappFinalizer})

\* C34: the engine takes its finalizer token only off a WebApp whose deletion
\* has been requested; its writes leave every other token as it was (the
\* record is purged only when none is left); and its token is never in the
\* list twice.
C34_FinalizerTokenHandling ==
    /\ [][EngineStep =>
            /\ (ContainsFinalizer(webapp, webappFinalizer)
                  /\ ~ContainsFinalizer(webapp', webappFinalizer))
                  => webapp.deleting
            /\ IF webapp'.exists \/ ~webapp.exists
               THEN OtherFinalizers(webapp') = OtherFinalizers(webapp)
               ELSE OtherFinalizers(webapp) = <<>>]_vars
    /\ [](OwnTokens(webapp) <= 1 /\ \A i \in Workers : OwnTokens(obj[i]) <= 1)

\* The engine has taken its token off a WebApp that is being deleted and that
\* another controller still holds with a token of its own.
C34_Witness ==
    /\ finalizerLanded
    /\ webapp.exists /\ webapp.deleting
    /\ webapp.finalizers = <<otherFinalizer>>
    /\ \E i \in Workers :
          /\ pc[i] = "done"
          /\ \E k \in Calls(i) : ops[i][k].at = "RemoveFinalizer" /\ ops[i][k].err = Nil

\* The last n calls of invocation i were made at the program points ats, in
\* that order, and all succeeded.
EndedWith(i, ats) ==
    /\ Len(ops[i]) >= Len(ats)
    /\ \A k \in 1..Len(ats) :
          LET op == ops[i][Len(ops[i]) - Len(ats) + k]
          IN op.at = ats[k] /\ op.err = Nil

\* C35 (result shape): what Reconcile returns is exactly one of: an error
\* with neither re-delivery set; success with immediate re-delivery, after
\* the finalizer update landed as the last call; success with re-delivery
\* after one minute, after the writes of Available, Progressing=False and
\* Degraded=False succeeded as the last three calls; success with no
\* re-delivery, for a WebApp that was not found or is being deleted.
C35_ResultShape ==
    \A i \in Workers : pc[i] = "done" =>
        LET r == result[i] IN
        /\ r.done
        /\ r.err # Nil => (~r.requeue /\ r.requeueAfter = 0)
        /\ r.err = Nil =>
              \/ /\ r.requeue /\ r.requeueAfter = 0
                 /\ EndedWith(i, <<"AddFinalizer">>)
              \/ /\ ~r.requeue /\ r.requeueAfter = requeueAfter
                 /\ EndedWith(i, <<"SetAvailable", "ClearProgressing", "ClearDegraded">>)
              \/ /\ ~r.requeue /\ r.requeueAfter = 0
                 /\ ops[i][1].err = ErrNotFound \/ obj[i].deleting

\* An invocation has returned success with no re-delivery for a WebApp it
\* did not find, after passes that added the token and made the children
\* and one that took the token off.
C35_Witness ==
    /\ pc[Primary] = "done"
    /\ result[Primary] = Success
    /\ ops[Primary][1].err = ErrNotFound
    /\ finalizerLanded
    /\ deployment.exists /\ service.exists

\* The stored Available Condition agrees with the stored count.
AvailableAgrees(o) ==
    LET c == StoredCondition(o, TypeAvailable) IN
    c.type = TypeAvailable =>
        /\ c.status = ConditionTrue <=> o.status.availableReplicas > 0
        /\ c.status \in {ConditionTrue, ConditionFalse}
        /\ c.message = AvailableCondition(o.status.availableReplicas, 0).message

\* C36: whenever the stored WebApp has an Available Condition, it is True if
\* and only if the stored availableReplicas is greater than zero; and the
\* stored count or the stored Available Condition changes only in the status
\* write that sets Available, which writes the two together.
C36_AvailableMatchesCount ==
    /\ [](webapp.exists => AvailableAgrees(webapp))
    /\ [][(/\ webapp.exists /\ webapp'.exists
           /\ \/ webapp'.status.availableReplicas # webapp.status.availableReplicas
              \/ Timeless(StoredCondition(webapp', TypeAvailable))
                    # Timeless(StoredCondition(webapp, TypeAvailable)))
          => \E i \in Workers :
                /\ pc[i] = "SetAvailable"
                /\ Len(ops'[i]) > Len(ops[i])
                /\ ops'[i][Len(ops'[i])].err = Nil
                /\ ops'[i][Len(ops'[i])].cond.type = TypeAvailable]_vars

\* The store holds Available=True with a count of one, written some time
\* ago together, while the Deployment has since lost its replicas.
C36_Witness ==
    /\ webapp.exists
    /\ StoredCondition(webapp, TypeAvailable).status = ConditionTrue
    /\ StoredCondition(webapp, TypeAvailable).message = "1 replica(s) available"
    /\ StoredCondition(webapp, TypeAvailable).lastTransitionTime < now
    /\ webapp.status.availableReplicas = 1
    /\ deployment.exists /\ deployment.availableReplicas = 0

\* The calls of reconcileDeployment and of reconcileService in invocation i.
DeploymentSync(i) ==
    {k \in Calls(i) : ops[i][k].at \in {"DeploymentGet", "DeploymentCreate",
                                        "DeploymentUpdate"}}
ServiceSync(i) == {k \in Calls(i) : ops[i][k].kind = "Service"}

\* C37 (child ordering): within one invocation every read and write of the
\* Service comes after the Deployment's synchronizer has read the Deployment
\* and landed its create or update; an invocation in which a call of the
\* Deployment's synchronizer failed makes no call on the Service.
C37_DeploymentBeforeService ==
    \A i \in Workers :
        /\ \A s \in ServiceSync(i) :
              /\ \A d \in DeploymentSync(i) : d < s
              /\ \E d \in DeploymentSync(i) :
                    /\ ops[i][d].verb \in {"create", "update"}
                    /\ ops[i][d].err = Nil
        /\ (\E d \in DeploymentSync(i) : FailedCall(ops[i][d])) => ServiceSync(i) = {}

\* A pass whose update of the Deployment failed has returned without a call
\* on the Service, which an earlier pass had created.
C37_Witness ==
    /\ pc[Primary] = "done"
    /\ \E d \in DeploymentSync(Primary) :
          ops[Primary][d].at = "DeploymentUpdate" /\ ops[Primary][d].err = ErrUnavailable
    /\ ServiceSync(Primary) = {}
    /\ service.exists

\* Invocation i's update of the Deployment lands in this step.
DeploymentUpdateLands(i) ==
    /\ pc[i] = "DeploymentUpdate"
    /\ Len(ops'[i]) > Len(ops[i])
    /\ ops'[i][Len(ops'[i])].err = Nil

\* C38 (container index): an update of an existing Deployment by the engine
\* leaves the container named webapp, wherever it is in the list, with the
\* image and port derived from the desired state, and every other container
\* as it was.
C38_OwnContainerOnly ==
    [][\A i \in Workers : DeploymentUpdateLands(i) =>
         /\ Len(deployment'.containers) = Len(deployment.containers)
         /\ \A k \in 1..Len(deployment.containers) :
               IF deployment.containers[k].name = ContainerName
               THEN deployment'.containers[k] =
                       [name |-> ContainerName, image |-> obj[i].spec.image,
                        port |-> obj[i].spec.port]
               ELSE deployment'.containers[k] = deployment.containers[k]]_vars

\* A WebApp record that carries the desired state d and nothing else.
Bare(d) == [NoWebApp EXCEPT !.exists = TRUE, !.spec = d]

\* Invocation i has computed the desired child of the kind its program point
\* tells and found none in the store.
Computed(i, kind) == pc[i] = kind \o "Create"

====
